---------------------------- MODULE Spec2Model ----------------------------
(***************************************************************************)
(* The GitHub API client of the dashboard (class GitHubAPI of lib/github): *)
(* one client object (credential, last rate-limit snapshot, listener list) *)
(* and one fetchWithRetry call running against it.  Every step of the call *)
(* is the code between two awaits: issuing fetch, handling the settled     *)
(* fetch, reading an error body, waking from a backoff sleep.              *)
(*                                                                         *)
(* Header values are sequences of characters; an absent header (null from  *)
(* Headers.get) and the empty string are both the empty sequence, since    *)
(* the code only tests header values for truthiness, compares them with    *)
(* '0' or hands them to parseInt.  Times are in milliseconds.              *)
(*                                                                         *)
(* The listeners are those the dashboard registers (RateLimitIndicator):   *)
(* a callback that stores the snapshot it is given, returns normally and   *)
(* does not call back into the client.  Listeners that throw or call an    *)
(* unsubscribe function while they are notified are those of SpecNotifying.*)
(***************************************************************************)
EXTENDS Integers, Sequences, FiniteSets, TLC

VARIABLES
    token,               \* GitHubAPI.token
    rateLimitInfo,       \* GitHubAPI.rateLimitInfo
    rateLimitListeners,  \* GitHubAPI.rateLimitListeners: callbacks, in array order
    regCallback,         \* regCallback[r]: the callback passed to the r-th onRateLimitChange call
    listenerRegs,        \* the registration that put each entry of rateLimitListeners there
    unsubCalls,          \* unsubCalls[r]: how often the function returned by registration r was called
    now,                 \* Date.now()
    pc,                  \* position of the fetchWithRetry call
    authHeader,          \* headers['Authorization'] of the call
    startToken,          \* GitHubAPI.token when the call started
    sentAuth,            \* the Authorization header of every fetch() the call made, in order
    attempt,             \* loop variable of fetchWithRetry
    fetches,             \* number of fetch() invocations made by the call
    hist,                \* kind of the outcome of every settled attempt, in order
    waits,               \* the sleeps the call has finished, in order
    pendingSleep,        \* duration of the sleep in progress
    last,                \* the outcome of the most recently settled attempt
    lastError,           \* local variable lastError
    events,              \* what processing the latest response did, in program order
    quotaResponse,       \* the latest processed response that carried the rate-limit headers
    result,              \* how the call settled
    accessor,            \* the accessor invocation in progress and its locals
    calls,               \* the fetchWithRetry calls of the accessor, in the order it started them
    repoInput,           \* RepositoryInput: state input
    isValid,             \* RepositoryInput: state isValid
    parsed,              \* RepositoryInput.handleSubmit: local parsed
    loading,             \* App: state loading
    displayed,           \* App: per loader, whether its state (commits, branches, ...) holds loaded data
    displayedBefore,     \* displayed when the latest loadRepositoryData started
    loaders,             \* the promises of the loaders of the latest loadRepositoryData
    loads,               \* number of loadRepositoryData invocations
    lastRefresh,         \* App: state lastRefresh
    loadPc,              \* position of loadRepositoryData
    timeAgo,             \* the latest formatTimeAgo call: its argument, the clock, its result
    statusView           \* the latest getStatusColor / getStatusIcon calls: arguments and results

apiVars == <<token, rateLimitInfo, rateLimitListeners, regCallback, listenerRegs, unsubCalls>>
callVars == <<pc, authHeader, startToken, sentAuth, attempt, fetches, hist, waits, pendingSleep, last, lastError, events, quotaResponse, result>>
accVars == <<accessor, calls>>
inputVars == <<repoInput, isValid, parsed>>
dashVars == <<loading, displayed, displayedBefore, loaders, loads, lastRefresh, loadPc>>
viewVars == <<timeAgo, statusView>>
vars == <<token, rateLimitInfo, rateLimitListeners, regCallback, listenerRegs, unsubCalls,
          now, pc, authHeader, startToken, sentAuth, attempt, fetches, hist, waits, pendingSleep, last, lastError, events, quotaResponse, result,
          accessor, calls, repoInput, isValid, parsed,
          loading, displayed, displayedBefore, loaders, loads, lastRefresh, loadPc,
          timeAgo, statusView>>

---------------------------------------------------------------------------
(* Program constants *)

MAX_RETRIES == 3
INITIAL_RETRY_DELAY == 1000

(* Bounds of the model *)

MaxListenerRegs == 2  \* onRateLimitChange calls in one behaviour of SpecListeners
MaxUnsubCalls == 2    \* calls of one returned unsubscribe function

StartTime == 2000     \* Date.now() when the client is constructed

\* the callbacks onRateLimitChange can be given: one registered before, or a
\* new one (callbacks are numbered in the order of their first registration)
NextCallbacks == 1..(Cardinality({regCallback[r] : r \in 1..Len(regCallback)}) + 1)

\* the credentials setToken can be given: null (or '') and a token
Tokens == {<<>>, <<"t", "k">>}

---------------------------------------------------------------------------
(* Values *)

Null == [null |-> TRUE]

Digits == <<"0", "1", "2", "3", "4", "5", "6", "7", "8", "9">>

IsDigit(c) == \E i \in 1..10 : Digits[i] = c

DigitValue(c) == (CHOOSE i \in 1..10 : Digits[i] = c) - 1

NaN == -1

RECURSIVE ParseDigits(_, _, _)
ParseDigits(s, i, acc) ==
    IF i > Len(s) \/ ~IsDigit(s[i]) THEN acc
    ELSE ParseDigits(s, i + 1, acc * 10 + DigitValue(s[i]))

\* parseInt(s, 10) of a header value without sign or leading blanks: the
\* value of the leading digits, NaN (here -1) when there is none.
ParseInt(s) ==
    IF Len(s) = 0 \/ ~IsDigit(s[1]) THEN NaN ELSE ParseDigits(s, 1, 0)

Truthy(s) == Len(s) > 0

RECURSIVE Pow2(_)
Pow2(n) == IF n = 0 THEN 1 ELSE 2 * Pow2(n - 1)

Max(a, b) == IF a >= b THEN a ELSE b

Includes(message, word) == \E i \in 1..Len(message) : message[i] = word

---------------------------------------------------------------------------
(* Inputs: the responses and the low-level failures fetch can settle with *)

Hdr(limit, remaining, reset, used, retryAfter) ==
    [limit |-> limit, remaining |-> remaining, reset |-> reset, used |-> used,
     retryAfter |-> retryAfter]

NoHeaders == Hdr(<<>>, <<>>, <<>>, <<>>, <<>>)
Quota59 == Hdr(<<"6", "0">>, <<"5", "9">>, <<"9">>, <<"1">>, <<>>)
Quota0 == Hdr(<<"6", "0">>, <<"0">>, <<"9">>, <<>>, <<>>)
RemainingOnly == Hdr(<<>>, <<"0">>, <<>>, <<>>, <<>>)
RetryAfter3 == Hdr(<<>>, <<>>, <<>>, <<>>, <<"3">>)

Resp(status, headers) == [status |-> status, headers |-> headers]

Responses ==
    {Resp(200, NoHeaders), Resp(200, Quota59),
     Resp(403, Quota0), Resp(403, RemainingOnly), Resp(403, Quota59),
     Resp(404, NoHeaders), Resp(404, Quota59),
     Resp(429, NoHeaders), Resp(429, RetryAfter3),
     Resp(500, Quota59), Resp(503, NoHeaders)}

\* the responses of the listener scenarios: every status class with the
\* rate-limit headers, and one response without them
ListenerResponses ==
    {Resp(200, Quota59), Resp(200, NoHeaders), Resp(403, Quota0), Resp(404, Quota59),
     Resp(429, Quota0), Resp(500, Quota59)}

FetchErrors ==
    {[name |-> "TypeError", message |-> <<"Failed", "to", "fetch">>],
     [name |-> "TypeError", message |-> <<"Load", "failed">>]}

Ok(response) == response.status >= 200 /\ response.status <= 299

---------------------------------------------------------------------------
(* Errors *)

GitHubAPIError(status, isRateLimited, hasRetryAfter, retryAfter) ==
    [name |-> "GitHubAPIError", status |-> status, isRateLimited |-> isRateLimited,
     hasRetryAfter |-> hasRetryAfter, retryAfter |-> retryAfter]

NetworkError(originalError) ==
    [name |-> "NetworkError", originalError |-> originalError]

---------------------------------------------------------------------------
(* Rate-limit tracking *)

HasRateLimitHeaders(response) ==
    /\ Truthy(response.headers.limit)
    /\ Truthy(response.headers.remaining)
    /\ Truthy(response.headers.reset)

InfoOf(response) ==
    [limit |-> ParseInt(response.headers.limit),
     remaining |-> ParseInt(response.headers.remaining),
     reset |-> ParseInt(response.headers.reset) * 1000,
     used |-> IF Truthy(response.headers.used) THEN ParseInt(response.headers.used) ELSE 0]

\* getRateLimitInfo()
getRateLimitInfo == rateLimitInfo

\* notifyRateLimitChange calling the listeners from the last to the first
notifyRateLimitChange_Reversed(listeners, info) ==
    [i \in 1..Len(listeners) |->
        [ev |-> "notify", cb |-> listeners[Len(listeners) + 1 - i], info |-> info]]

\* notifyRateLimitChange: one call per entry of the array, in array order
notifyRateLimitChange(listeners, info) ==
    [i \in 1..Len(listeners) |-> [ev |-> "notify", cb |-> listeners[i], info |-> info]]

\* updateRateLimitInfo that publishes only a snapshot that differs from the stored one
updateRateLimitInfo_Dedup(response, info, listeners) ==
    IF HasRateLimitHeaders(response)
    THEN [info |-> InfoOf(response),
          events |-> IF InfoOf(response) = info THEN <<>>
                     ELSE notifyRateLimitChange(listeners, InfoOf(response))]
    ELSE [info |-> info, events |-> <<>>]

\* updateRateLimitInfo that forgets the snapshot on a response without the headers
updateRateLimitInfo_ClearOnMissing(response, info, listeners) ==
    IF HasRateLimitHeaders(response)
    THEN [info |-> InfoOf(response), events |-> notifyRateLimitChange(listeners, InfoOf(response))]
    ELSE [info |-> Null, events |-> <<>>]

\* updateRateLimitInfo: the snapshot it leaves and the listener calls it makes
updateRateLimitInfo(response, info, listeners) ==
    IF HasRateLimitHeaders(response)
    THEN [info |-> InfoOf(response), events |-> notifyRateLimitChange(listeners, InfoOf(response))]
    ELSE [info |-> info, events |-> <<>>]

---------------------------------------------------------------------------
(* fetchWithRetry: what one iteration does with a response or a failure *)

\* lines 107-109: headers['Authorization'], an absent header being the empty sequence
AuthorizationHeader(t) == IF Truthy(t) THEN <<"token">> \o t ELSE <<>>

\* a fetch that rebuilds the header from the credential stored at that moment
RequestAuth_Current(callHeader, currentToken) == AuthorizationHeader(currentToken)

\* line 115: the Authorization header of a fetch is the one of the headers object
\* built when the call started
RequestAuth(callHeader, currentToken) == callHeader

\* a backoff that grows by the initial delay instead of doubling
Backoff_Linear(k) == INITIAL_RETRY_DELAY * (k + 1)

Backoff(k) == INITIAL_RETRY_DELAY * Pow2(k)

\* the 403 branch
PrimaryLimit(response) ==
    response.status = 403 /\ response.headers.remaining = <<"0">>

\* the wait of the 403 branch without the clamp at zero
PrimaryWait_Raw(response, t) ==
    LET resetDate == IF Truthy(response.headers.reset)
                     THEN ParseInt(response.headers.reset) * 1000
                     ELSE t
    IN  resetDate - t

PrimaryWait(response, t) ==
    LET resetDate == IF Truthy(response.headers.reset)
                     THEN ParseInt(response.headers.reset) * 1000
                     ELSE t
    IN  Max(0, resetDate - t)

\* a Retry-After wait that grows with the attempt number
SecondaryWait_Scaled(response, k) ==
    IF Truthy(response.headers.retryAfter)
    THEN ParseInt(response.headers.retryAfter) * 1000 * Pow2(k)
    ELSE Backoff(k)

\* the 429 branch
SecondaryWait(response, k) ==
    IF Truthy(response.headers.retryAfter)
    THEN ParseInt(response.headers.retryAfter) * 1000
    ELSE Backoff(k)

\* the try block sleeping after a 429 on the last attempt as well
HandleResponse_AlwaysSleep(response, k, t) ==
    IF PrimaryLimit(response)
    THEN [do |-> "throw", error |-> GitHubAPIError(403, TRUE, TRUE, PrimaryWait(response, t))]
    ELSE IF response.status = 429
    THEN [do |-> "sleep", ms |-> SecondaryWait(response, k)]
    ELSE IF response.status >= 500 /\ k < MAX_RETRIES
    THEN [do |-> "sleep", ms |-> Backoff(k)]
    ELSE IF ~Ok(response)
    THEN [do |-> "text"]
    ELSE [do |-> "return"]

\* the try block after updateRateLimitInfo, up to its next await, throw or return
HandleResponse(response, k, t) ==
    IF PrimaryLimit(response)
    THEN [do |-> "throw", error |-> GitHubAPIError(403, TRUE, TRUE, PrimaryWait(response, t))]
    ELSE IF response.status = 429
    THEN IF k < MAX_RETRIES
         THEN [do |-> "sleep", ms |-> SecondaryWait(response, k)]
         ELSE [do |-> "throw",
               error |-> GitHubAPIError(429, TRUE, TRUE, SecondaryWait(response, k))]
    ELSE IF response.status >= 500 /\ k < MAX_RETRIES
    THEN [do |-> "sleep", ms |-> Backoff(k)]
    ELSE IF ~Ok(response)
    THEN [do |-> "text"]
    ELSE [do |-> "return"]

\* the client-error test with the negation of isRateLimited left out
ClientError_RateLimited(error) ==
    /\ error.name = "GitHubAPIError"
    /\ error.status >= 400
    /\ error.status < 500
    /\ error.isRateLimited

\* line 182: a client error that is not a rate limit
ClientError(error) ==
    /\ error.name = "GitHubAPIError"
    /\ error.status >= 400
    /\ error.status < 500
    /\ ~error.isRateLimited

IsFetchTypeError(error) ==
    error.name = "TypeError" /\ Includes(error.message, "fetch")

\* the catch block re-throwing every other error at once
HandleError_RethrowAll(error, k) ==
    IF ClientError(error)
    THEN [do |-> "throw", error |-> error]
    ELSE IF IsFetchTypeError(error)
    THEN IF k < MAX_RETRIES
         THEN [do |-> "sleep", ms |-> Backoff(k)]
         ELSE [do |-> "throw", error |-> NetworkError(error)]
    ELSE [do |-> "throw", error |-> error]

\* the catch block going on to the next iteration after the last attempt too
HandleError_KeepTrying(error, k) ==
    IF ClientError(error)
    THEN [do |-> "throw", error |-> error]
    ELSE IF IsFetchTypeError(error)
    THEN IF k < MAX_RETRIES
         THEN [do |-> "sleep", ms |-> Backoff(k)]
         ELSE [do |-> "throw", error |-> NetworkError(error)]
    ELSE [do |-> "next"]

\* the catch block
HandleError(error, k) ==
    IF ClientError(error)
    THEN [do |-> "throw", error |-> error]
    ELSE IF IsFetchTypeError(error)
    THEN IF k < MAX_RETRIES
         THEN [do |-> "sleep", ms |-> Backoff(k)]
         ELSE [do |-> "throw", error |-> NetworkError(error)]
    ELSE IF k = MAX_RETRIES
    THEN [do |-> "throw", error |-> error]
    ELSE [do |-> "next"]

\* the kind of an attempt's outcome
Kind(outcome) ==
    IF outcome.kind = "failure" THEN "failure"
    ELSE IF Ok(outcome.response) THEN "2xx"
    ELSE IF PrimaryLimit(outcome.response) THEN "403-limit"
    ELSE IF outcome.response.status = 429 THEN "429"
    ELSE IF outcome.response.status >= 500 THEN "5xx"
    ELSE "4xx"

---------------------------------------------------------------------------
(* The accessors: JSON bodies, the Link header and its parsing *)

\* the number of commits whose file detail getRecentCommitsWithFiles requests
FileDetailCommits == 5

\* the default of the limit parameter of getRecentCommitsWithFiles
DefaultLimit == 10

\* a body that response.json() cannot read (truncated or not JSON)
Unreadable == [unreadable |-> TRUE]

\* a body that response.json() parses into value
Json(value) == [json |-> value]

\* a response of the accessors: status, the five headers of Hdr, Link, body
RespBody(status, headers, link, body) ==
    [status |-> status, headers |-> headers, link |-> link, body |-> body]

Min(a, b) == IF a < b THEN a ELSE b

\* Array.prototype.slice(0, n)
Slice(s, n) == SubSeq(s, 1, Min(n, Len(s)))

\* the position of the first c in s at or after from, 0 when there is none
FirstAt(s, from, c) ==
    IF \E j \in from..Len(s) : s[j] = c
    THEN CHOOSE j \in from..Len(s) : s[j] = c /\ \A k \in from..(j - 1) : s[k] # c
    ELSE 0

\* String.prototype.split with a one-character separator
RECURSIVE Split(_, _)
Split(s, sep) ==
    LET at == FirstAt(s, 1, sep)
    IN  IF at = 0 THEN <<s>>
        ELSE <<SubSeq(s, 1, at - 1)>> \o Split(SubSeq(s, at + 1, Len(s)), sep)

\* the literal rel=" of the pattern
RelPrefix == <<"r", "e", "l", "=", "\"">>

\* the position of the first character at or after from that \s does not match
SkipSpaces(s, from) ==
    IF \E j \in from..Len(s) : s[j] # " "
    THEN CHOOSE j \in from..Len(s) : s[j] # " " /\ \A k \in from..(j - 1) : s[k] = " "
    ELSE Len(s) + 1

\* the match of /<([^>]+)>;\s*rel="([^"]+)"/ that starts at position i of part
MatchAt(part, i) ==
    IF part[i] # "<" THEN Null
    ELSE LET gt == FirstAt(part, i + 1, ">")
         IN  IF gt < i + 2 \/ gt + 1 > Len(part) \/ part[gt + 1] # ";" THEN Null
             ELSE LET r == SkipSpaces(part, gt + 2)
                  IN  IF r + 4 > Len(part) \/ SubSeq(part, r, r + 4) # RelPrefix THEN Null
                      ELSE LET q == FirstAt(part, r + 5, "\"")
                           IN  IF q < r + 6 THEN Null
                               ELSE [url |-> SubSeq(part, i + 1, gt - 1),
                                     rel |-> SubSeq(part, r + 5, q - 1)]

\* part.match(pattern): the leftmost match, Null when there is none
Match(part) ==
    IF \E i \in 1..Len(part) : MatchAt(part, i) # Null
    THEN MatchAt(part, CHOOSE i \in 1..Len(part) :
                           /\ MatchAt(part, i) # Null
                           /\ \A k \in 1..(i - 1) : MatchAt(part, k) = Null)
    ELSE Null

RelNext == <<"n", "e", "x", "t">>
RelPrev == <<"p", "r", "e", "v">>
RelLast == <<"l", "a", "s", "t">>
RelFirst == <<"f", "i", "r", "s", "t">>

\* the loop of parseLinkHeader over parts: links maps a relation to its URL
RECURSIVE CollectLinks(_, _)
CollectLinks(parts, links) ==
    IF parts = <<>> THEN links
    ELSE LET match == Match(Head(parts))
         IN  CollectLinks(Tail(parts),
                 IF match # Null /\ match.rel \in {RelNext, RelPrev, RelLast}
                 THEN [rel \in DOMAIN links \cup {match.rel} |->
                          IF rel = match.rel THEN match.url ELSE links[rel]]
                 ELSE links)

\* the links object without any relation
NoLinks == [rel \in {} |-> <<>>]

parseLinkHeader(linkHeader) ==
    IF ~Truthy(linkHeader) THEN NoLinks
    ELSE CollectLinks(Split(linkHeader, ","), NoLinks)

\* the pagination object with hasPrevPage taken from the prev relation
Pagination_PrevFromLink(links, page, perPage) ==
    [page |-> page, perPage |-> perPage,
     hasNextPage |-> RelNext \in DOMAIN links /\ Truthy(links[RelNext]),
     hasPrevPage |-> RelPrev \in DOMAIN links /\ Truthy(links[RelPrev])]

\* the pagination object every paginated accessor builds
Pagination(links, page, perPage) ==
    [page |-> page, perPage |-> perPage,
     hasNextPage |-> RelNext \in DOMAIN links /\ Truthy(links[RelNext]),
     hasPrevPage |-> page > 1]

\* one entry of a Link header as GitHub writes it
LinkPart(url, rel) == <<"<">> \o url \o <<">", ";", " ">> \o RelPrefix \o rel \o <<"\"">>

LinkSep == <<",", " ">>

\* Link headers: absent; first page; middle page; last page; next only, written
\* without the space
LinkHeaders ==
    { <<>>,
      LinkPart(<<"u", "2">>, RelNext) \o LinkSep \o LinkPart(<<"u", "9">>, RelLast),
      LinkPart(<<"u", "1">>, RelPrev) \o LinkSep \o LinkPart(<<"u", "3">>, RelNext)
          \o LinkSep \o LinkPart(<<"u", "9">>, RelLast)
          \o LinkSep \o LinkPart(<<"u", "1">>, RelFirst),
      LinkPart(<<"u", "8">>, RelPrev) \o LinkSep \o LinkPart(<<"u", "1">>, RelFirst),
      <<"<", "u", "2", ">", ";">> \o RelPrefix \o RelNext \o <<"\"">> }

---------------------------------------------------------------------------
(* parseRepoInput, on character sequences *)

\* what String.prototype.trim removes at both ends
IsWhitespace(c) == c \in {" ", "\t", "\n"}

\* a trim that removes nothing
Trim_None(s) == s

\* String.prototype.trim
Trim(s) ==
    IF \A i \in 1..Len(s) : IsWhitespace(s[i]) THEN <<>>
    ELSE LET start == CHOOSE i \in 1..Len(s) :
                          ~IsWhitespace(s[i]) /\ \A k \in 1..(i - 1) : IsWhitespace(s[k])
             stop == CHOOSE i \in 1..Len(s) :
                         ~IsWhitespace(s[i]) /\ \A k \in (i + 1)..Len(s) : IsWhitespace(s[k])
         IN  SubSeq(s, start, stop)

StartsWith(s, prefix) == Len(s) >= Len(prefix) /\ SubSeq(s, 1, Len(prefix)) = prefix

GitHubHost == <<"g", "i", "t", "h", "u", "b", ".", "c", "o", "m", "/">>
HttpsPrefix == <<"h", "t", "t", "p", "s", ":", "/", "/">> \o GitHubHost
HttpPrefix == <<"h", "t", "t", "p", ":", "/", "/">> \o GitHubHost
DotGit == <<".", "g", "i", "t">>

\* (?:\.git)?(?:\/.*)?$ matches the whole of tail
TailMatches(tail) ==
    \/ tail = <<>>
    \/ tail[1] = "/" /\ \A i \in 1..Len(tail) : tail[i] # "\n"
    \/ /\ StartsWith(tail, DotGit)
       /\ LET rest == SubSeq(tail, Len(DotGit) + 1, Len(tail))
          IN  rest = <<>> \/ (rest[1] = "/" /\ \A i \in 1..Len(rest) : rest[i] # "\n")

\* ([^\/]+)\/([^\/]+?)(?:\.git)?(?:\/.*)?$ matched from position from of s:
\* the owner runs up to the first slash, the repo is the shortest non-empty
\* slash-free run after which the tail matches
MatchOwnerRepo(s, from) ==
    LET slash == FirstAt(s, from, "/")
        ends == { e \in (slash + 1)..Len(s) :
                     /\ \A k \in (slash + 1)..e : s[k] # "/"
                     /\ TailMatches(SubSeq(s, e + 1, Len(s))) }
    IN  IF slash <= from \/ ends = {} THEN Null
        ELSE LET e == CHOOSE x \in ends : \A y \in ends : x <= y
             IN  [owner |-> SubSeq(s, from, slash - 1), repo |-> SubSeq(s, slash + 1, e)]

\* lines 493-499: the pattern is tried with the optional prefix first, then
\* without it
parseRepoInput(input) ==
    LET s == Trim(input)
        withPrefix == IF StartsWith(s, HttpsPrefix) THEN MatchOwnerRepo(s, Len(HttpsPrefix) + 1)
                      ELSE IF StartsWith(s, HttpPrefix) THEN MatchOwnerRepo(s, Len(HttpPrefix) + 1)
                      ELSE Null
    IN  IF withPrefix # Null THEN withPrefix ELSE MatchOwnerRepo(s, 1)

\* the local parsed of handleSubmit outside the handler
NotParsed == [parsed |-> FALSE]

\* the inputs that name a repository: white space, prefix, owner, repo, suffix
Spaces == {<<>>, <<" ">>, <<" ", " ">>}
Prefixes == {<<>>, HttpsPrefix, HttpPrefix}
Owners == {<<"o">>, <<"f", "b">>}
Repos == {<<"r">>, <<"r", "e", ".", "j", "s">>}
Suffixes == {<<>>, DotGit, <<"/", "t", "r", "e", "e", "/", "m">>, DotGit \o <<"/">>}
RepoForms ==
    [lead : Spaces, prefix : Prefixes, owner : Owners, repo : Repos, suffix : Suffixes,
     trail : Spaces]

Render(f) == f.lead \o f.prefix \o f.owner \o <<"/">> \o f.repo \o f.suffix \o f.trail

\* inputs without an owner and a repo: empty, blank, a bare name, a missing
\* segment, a URL that stops at the host or at the owner
InvalidInputs ==
    { <<>>, <<" ">>, <<"i", "n", "v", "a", "l", "i", "d">>, <<"o", "w", "n", "e", "r">>,
      <<" ", "o", " ">>, <<"o", "/">>, <<"/", "r">>, HttpsPrefix, HttpsPrefix \o <<"o">>,
      HttpPrefix \o <<"o", "/">> }

RepoInputs == { Render(f) : f \in RepoForms } \cup InvalidInputs

\* the loaders of loadRepositoryData, by the key of their loading flag
Loaders ==
    {"commits", "branches", "pullRequests", "workflowRuns", "contributors", "languages",
     "fileChanges"}

\* no accessor invoked yet
NoAccessor ==
    [name |-> "none", status |-> "idle", page |-> 0, perPage |-> 0,
     commits |-> <<>>, commitsWithFiles |-> <<>>, data |-> Null, links |-> NoLinks,
     value |-> Null]

---------------------------------------------------------------------------
(* The state after construction, no call started *)

Init ==
    /\ token = <<>>
    /\ rateLimitInfo = Null
    /\ rateLimitListeners = <<>>
    /\ regCallback = <<>>
    /\ listenerRegs = <<>>
    /\ unsubCalls = <<>>
    /\ now = StartTime
    /\ pc = "idle"
    /\ authHeader = <<>>
    /\ startToken = <<>>
    /\ sentAuth = <<>>
    /\ attempt = 0
    /\ fetches = 0
    /\ hist = <<>>
    /\ waits = <<>>
    /\ pendingSleep = 0
    /\ last = [kind |-> "none"]
    /\ lastError = Null
    /\ events = <<>>
    /\ quotaResponse = Null
    /\ result = [kind |-> "pending"]
    /\ accessor = NoAccessor
    /\ calls = <<>>
    /\ repoInput = <<>>
    /\ isValid = TRUE
    /\ parsed = NotParsed
    /\ loading = [k \in Loaders \cup {"repository"} |-> FALSE]
    /\ displayed = [l \in Loaders |-> "empty"]
    /\ displayedBefore = [l \in Loaders |-> "empty"]
    /\ loaders = [l \in Loaders |-> "none"]
    /\ loads = 0
    /\ lastRefresh = Null
    /\ loadPc = "idle"
    /\ timeAgo = Null
    /\ statusView = Null

---------------------------------------------------------------------------
(* Operations of the client object *)

\* a setToken that also drops the cached snapshot
setToken_ResetInfo(t) ==
    /\ token' = t
    /\ rateLimitInfo' = Null
    /\ UNCHANGED <<rateLimitListeners, regCallback, listenerRegs, unsubCalls>>
    /\ UNCHANGED now
    /\ UNCHANGED callVars
    /\ UNCHANGED <<accVars, inputVars, dashVars, viewVars>>

setToken(t) ==
    /\ token' = t
    /\ UNCHANGED <<rateLimitInfo, rateLimitListeners, regCallback, listenerRegs, unsubCalls>>
    /\ UNCHANGED now
    /\ UNCHANGED callVars
    /\ UNCHANGED <<accVars, inputVars, dashVars, viewVars>>

onRateLimitChange(listener) ==
    /\ rateLimitListeners' = Append(rateLimitListeners, listener)
    /\ regCallback' = Append(regCallback, listener)
    /\ listenerRegs' = Append(listenerRegs, Len(regCallback) + 1)
    /\ unsubCalls' = Append(unsubCalls, 0)
    /\ UNCHANGED <<token, rateLimitInfo, now>>
    /\ UNCHANGED callVars
    /\ UNCHANGED <<accVars, inputVars, dashVars, viewVars>>

\* removal by splice(indexOf(listener), 1): one entry goes, the last one when
\* the listener is not in the array
WithoutListener_Splice(listeners, listener) ==
    LET n == Len(listeners)
        at == IF \E i \in 1..n : listeners[i] = listener
              THEN CHOOSE i \in 1..n : listeners[i] = listener
                                        /\ \A j \in 1..(i - 1) : listeners[j] # listener
              ELSE n
    IN  [i \in 1..(IF n = 0 THEN 0 ELSE n - 1) |->
            IF i < at THEN listeners[i] ELSE listeners[i + 1]]

\* the array left by filter(l => l !== listener)
WithoutListener(listeners, listener) ==
    SelectSeq(listeners, LAMBDA l : l # listener)

\* the function returned by the r-th onRateLimitChange call
unsubscribe(r) ==
    /\ r \in 1..Len(regCallback)
    /\ unsubCalls[r] < MaxUnsubCalls
    /\ rateLimitListeners' = WithoutListener(rateLimitListeners, regCallback[r])
    /\ listenerRegs' = SelectSeq(listenerRegs, LAMBDA q : regCallback[q] # regCallback[r])
    /\ unsubCalls' = [unsubCalls EXCEPT ![r] = @ + 1]
    /\ UNCHANGED <<token, rateLimitInfo, regCallback, now>>
    /\ UNCHANGED callVars
    /\ UNCHANGED <<accVars, inputVars, dashVars, viewVars>>

---------------------------------------------------------------------------
(* fetchWithRetry *)

\* lines 102-115: build the headers and issue the first fetch
StartCall ==
    /\ pc = "idle"
    /\ authHeader' = AuthorizationHeader(token)
    /\ startToken' = token
    /\ sentAuth' = Append(sentAuth, RequestAuth(authHeader', token))
    /\ lastError' = Null
    /\ attempt' = 0
    /\ fetches' = 1
    /\ pc' = "fetching"
    /\ UNCHANGED <<hist, waits, pendingSleep, last, events, quotaResponse, result>>
    /\ UNCHANGED now
    /\ UNCHANGED apiVars
    /\ UNCHANGED <<accVars, inputVars, dashVars, viewVars>>

\* the catch block applied to error, and what follows it in the loop
Caught(error) ==
    LET h == HandleError(error, attempt) IN
    /\ lastError' = error
    /\ CASE h.do = "throw" ->
              /\ pc' = "rejected"
              /\ result' = [kind |-> "rejected", error |-> h.error]
              /\ UNCHANGED <<attempt, fetches, sentAuth, pendingSleep>>
         [] h.do = "sleep" ->
              /\ pc' = "sleeping"
              /\ pendingSleep' = h.ms
              /\ UNCHANGED <<attempt, fetches, sentAuth, result>>
         [] h.do = "next" ->
              /\ pc' = "fetching"
              /\ attempt' = attempt + 1
              /\ fetches' = fetches + 1
              /\ sentAuth' = Append(sentAuth, RequestAuth(authHeader, token))
              /\ UNCHANGED <<pendingSleep, result>>

\* the awaited fetch resolves with a response
FetchResponds(response) ==
    /\ pc = "fetching"
    /\ LET u == updateRateLimitInfo(response, rateLimitInfo, rateLimitListeners)
           h == HandleResponse(response, attempt, now)
       IN  /\ rateLimitInfo' = u.info
           /\ events' = u.events \o <<[ev |-> "status", do |-> h.do]>>
           /\ last' = [kind |-> "response", response |-> response]
           /\ quotaResponse' = IF HasRateLimitHeaders(response) THEN response ELSE quotaResponse
           /\ hist' = Append(hist, Kind([kind |-> "response", response |-> response]))
           /\ CASE h.do = "throw" -> Caught(h.error)
                [] h.do = "sleep" ->
                     /\ pc' = "sleeping"
                     /\ pendingSleep' = h.ms
                     /\ UNCHANGED <<attempt, fetches, sentAuth, lastError, result>>
                [] h.do = "text" ->
                     /\ pc' = "readingBody"
                     /\ UNCHANGED <<attempt, fetches, sentAuth, pendingSleep, lastError, result>>
                [] h.do = "return" ->
                     /\ pc' = "resolved"
                     /\ result' = [kind |-> "resolved", response |-> response]
                     /\ UNCHANGED <<attempt, fetches, sentAuth, pendingSleep, lastError>>
    /\ UNCHANGED <<token, rateLimitListeners, regCallback, listenerRegs, unsubCalls>>
    /\ UNCHANGED <<now, authHeader, startToken, waits>>
    /\ UNCHANGED <<accVars, inputVars, dashVars, viewVars>>

\* lines 162-175: the awaited response.text() settles; the error is built and thrown
\* (the message, taken from the body or composed from the status, is not modelled)
BodyRead ==
    /\ pc = "readingBody"
    /\ Caught(GitHubAPIError(last.response.status, FALSE, FALSE, 0))
    /\ UNCHANGED <<now, authHeader, startToken, hist, waits, last, events, quotaResponse>>
    /\ UNCHANGED apiVars
    /\ UNCHANGED <<accVars, inputVars, dashVars, viewVars>>

\* the awaited fetch rejects
FetchRejects(error) ==
    /\ pc = "fetching"
    /\ last' = [kind |-> "failure", error |-> error]
    /\ hist' = Append(hist, Kind([kind |-> "failure", error |-> error]))
    /\ events' = <<>>
    /\ Caught(error)
    /\ UNCHANGED <<now, authHeader, startToken, waits, quotaResponse>>
    /\ UNCHANGED apiVars
    /\ UNCHANGED <<accVars, inputVars, dashVars, viewVars>>

\* the awaited sleep is over: continue with the next iteration
SleepDone ==
    /\ pc = "sleeping"
    /\ now' = now + pendingSleep
    /\ waits' = Append(waits, pendingSleep)
    /\ pendingSleep' = 0
    /\ attempt' = attempt + 1
    /\ IF attempt + 1 <= MAX_RETRIES
       THEN /\ pc' = "fetching"
            /\ fetches' = fetches + 1
            /\ sentAuth' = Append(sentAuth, RequestAuth(authHeader, token))
            /\ UNCHANGED result
       ELSE /\ pc' = "rejected"
            /\ fetches' = fetches
            /\ UNCHANGED sentAuth
            /\ result' = [kind |-> "rejected",
                          error |-> IF lastError # Null THEN lastError
                                    ELSE [name |-> "Error"]]
    /\ UNCHANGED <<authHeader, startToken, hist, last, lastError, events, quotaResponse>>
    /\ UNCHANGED apiVars
    /\ UNCHANGED <<accVars, inputVars, dashVars, viewVars>>

---------------------------------------------------------------------------

\* the client as the dashboard uses it: the rate limit indicator is the one
\* component that registers a listener, and it registers once
Next ==
    \/ \E t \in Tokens : setToken(t)
    \/ regCallback = <<>> /\ \E listener \in NextCallbacks : onRateLimitChange(listener)
    \/ \E r \in DOMAIN regCallback : unsubscribe(r)
    \/ StartCall
    \/ \E response \in Responses : FetchResponds(response)
    \/ BodyRead
    \/ \E error \in FetchErrors : FetchRejects(error)
    \/ SleepDone

Spec == Init /\ [][Next]_vars

\* one call on its own, every fetch, body read and timer of which settles
FetchSettles ==
    \/ \E response \in Responses : FetchResponds(response)
    \/ \E error \in FetchErrors : FetchRejects(error)

NextCall ==
    \/ StartCall
    \/ FetchSettles
    \/ BodyRead
    \/ SleepDone

SpecCall ==
    /\ Init
    /\ [][NextCall]_vars
    /\ WF_vars(FetchSettles)
    /\ WF_vars(BodyRead)
    /\ WF_vars(SleepDone)

\* the client with several listeners, called over the responses of ListenerResponses
NextListeners ==
    \/ Len(regCallback) < MaxListenerRegs
          /\ \E listener \in NextCallbacks : onRateLimitChange(listener)
    \/ \E r \in 1..MaxListenerRegs : unsubscribe(r)
    \/ StartCall
    \/ \E response \in ListenerResponses : FetchResponds(response)
    \/ BodyRead
    \/ SleepDone

SpecListeners == Init /\ [][NextListeners]_vars

---------------------------------------------------------------------------
(* Listeners of any kind.  A callback is the description of what the function
   does when it is called: store the snapshot, throw, or call the unsubscribe
   function of registration r.  Two registrations of the same description are
   registrations of the same function. *)

Stores == [does |-> "store"]
Throws == [does |-> "throw"]
Unsubscribes(r) == [does |-> "unsubscribe", r |-> r]

\* the callbacks onRateLimitChange is given: an unsubscribing one is written
\* for the function that some registration returns, its own or another, and
\* calls it once that registration has been made
AnyCallbacks == {Stores, Throws} \cup {Unsubscribes(r) : r \in 1..MaxListenerRegs}

\* what a throwing listener throws
ListenerError == [name |-> "Error", thrownBy |-> "listener"]

\* the client while notifyRateLimitChange runs: the list, the bookkeeping of
\* the registrations, the calls made so far, the exception in flight
FanOutStart ==
    [listeners |-> rateLimitListeners, regs |-> listenerRegs, unsubCalls |-> unsubCalls,
     events |-> <<>>, thrown |-> Null]

\* line 73: forEach over the array that was the list when the fan-out began,
\* from its entry i on.  An unsubscribe function called meanwhile assigns a new,
\* filtered array to the list (line 68) and leaves the array being walked as it
\* is; an exception ends the walk.
RECURSIVE FanOut(_, _, _, _)
FanOut(array, i, info, st) ==
    IF i > Len(array) THEN st
    ELSE LET cb == array[i]
             called == [st EXCEPT !.events = Append(@, [ev |-> "notify", cb |-> cb,
                                                         info |-> info])]
         IN  CASE cb.does = "throw" -> [called EXCEPT !.thrown = ListenerError]
               [] cb.does = "store" -> FanOut(array, i + 1, info, called)
               [] cb.does = "unsubscribe" /\ cb.r > Len(regCallback) ->
                      FanOut(array, i + 1, info, called)
               [] cb.does = "unsubscribe" /\ cb.r <= Len(regCallback) ->
                      FanOut(array, i + 1, info,
                          [called EXCEPT
                              !.listeners = WithoutListener(@, regCallback[cb.r]),
                              !.regs = SelectSeq(@, LAMBDA q : regCallback[q] # regCallback[cb.r]),
                              !.unsubCalls[cb.r] = @ + 1,
                              !.events = Append(@, [ev |-> "unsubscribe", r |-> cb.r])])

\* the awaited fetch resolves with a response, the listeners being of any kind:
\* lines 76-91 with the fan-out, then the try block, or the catch block when a
\* listener threw
FetchRespondsNotifying(response) ==
    /\ pc = "fetching"
    /\ LET f == IF HasRateLimitHeaders(response)
                THEN FanOut(rateLimitListeners, 1, InfoOf(response), FanOutStart)
                ELSE FanOutStart
           h == HandleResponse(response, attempt, now)
       IN  /\ rateLimitInfo' = IF HasRateLimitHeaders(response) THEN InfoOf(response)
                               ELSE rateLimitInfo
           /\ rateLimitListeners' = f.listeners
           /\ listenerRegs' = f.regs
           /\ unsubCalls' = f.unsubCalls
           /\ last' = [kind |-> "response", response |-> response]
           /\ quotaResponse' = IF HasRateLimitHeaders(response) THEN response ELSE quotaResponse
           /\ hist' = Append(hist, Kind([kind |-> "response", response |-> response]))
           /\ IF f.thrown # Null
              THEN /\ events' = f.events
                   /\ Caught(f.thrown)
              ELSE /\ events' = f.events \o <<[ev |-> "status", do |-> h.do]>>
                   /\ CASE h.do = "throw" -> Caught(h.error)
                        [] h.do = "sleep" ->
                             /\ pc' = "sleeping"
                             /\ pendingSleep' = h.ms
                             /\ UNCHANGED <<attempt, fetches, sentAuth, lastError, result>>
                        [] h.do = "text" ->
                             /\ pc' = "readingBody"
                             /\ UNCHANGED <<attempt, fetches, sentAuth, pendingSleep, lastError,
                                            result>>
                        [] h.do = "return" ->
                             /\ pc' = "resolved"
                             /\ result' = [kind |-> "resolved", response |-> response]
                             /\ UNCHANGED <<attempt, fetches, sentAuth, pendingSleep, lastError>>
    /\ UNCHANGED <<token, regCallback>>
    /\ UNCHANGED <<now, authHeader, startToken, waits>>
    /\ UNCHANGED <<accVars, inputVars, dashVars, viewVars>>

\* the responses of these scenarios: a success and a server error with the
\* rate-limit headers, and a success without them
NotifyingResponses == {Resp(200, Quota59), Resp(200, NoHeaders), Resp(503, Quota59)}

NextNotifying ==
    \/ Len(regCallback) < MaxListenerRegs
          /\ \E listener \in AnyCallbacks : onRateLimitChange(listener)
    \/ \E r \in DOMAIN regCallback : unsubscribe(r)
    \/ StartCall
    \/ \E response \in NotifyingResponses : FetchRespondsNotifying(response)
    \/ BodyRead
    \/ SleepDone

SpecNotifying == Init /\ [][NextNotifying]_vars

---------------------------------------------------------------------------
(* fetchWithRetry as the accessors run it: one record per call, so that the
   follow-up calls of searchPullRequests can be in flight together.  The
   record holds the locals of the call; a step is the code between two awaits,
   built from HandleResponse and HandleError as the steps of the single call
   above. *)

Url(kind, id) == [kind |-> kind, id |-> id]

\* lines 102-115: the call has built its headers from the credential stored at
\* that moment and issued its first fetch
NewCall(url) ==
    [url |-> url, auth |-> AuthorizationHeader(token), pc |-> "fetching", attempt |-> 0,
     fetches |-> 1, lastError |-> Null, pendingSleep |-> 0, response |-> Null, error |-> Null]

\* the catch block applied to error, and what follows it in the loop
CallCaught(call, error) ==
    LET h == HandleError(error, call.attempt)
        c == [call EXCEPT !.lastError = error]
    IN  CASE h.do = "throw" -> [c EXCEPT !.pc = "rejected", !.error = h.error]
          [] h.do = "sleep" -> [c EXCEPT !.pc = "sleeping", !.pendingSleep = h.ms]
          [] h.do = "next" -> [c EXCEPT !.pc = "fetching", !.attempt = @ + 1, !.fetches = @ + 1]

\* the awaited fetch resolves with a response
CallResponds(call, response, t) ==
    LET h == HandleResponse(response, call.attempt, t)
        c == [call EXCEPT !.response = response]
    IN  CASE h.do = "throw" -> CallCaught(c, h.error)
          [] h.do = "sleep" -> [c EXCEPT !.pc = "sleeping", !.pendingSleep = h.ms]
          [] h.do = "text" -> [c EXCEPT !.pc = "readingBody"]
          [] h.do = "return" -> [c EXCEPT !.pc = "resolved"]

\* lines 162-175: the error body is read, the error built and thrown
CallBodyRead(call) ==
    CallCaught(call, GitHubAPIError(call.response.status, FALSE, FALSE, 0))

\* the awaited sleep is over: the next iteration, or line 202 after the last one
CallWakes(call) ==
    IF call.attempt + 1 <= MAX_RETRIES
    THEN [call EXCEPT !.pc = "fetching", !.attempt = @ + 1, !.fetches = @ + 1,
                      !.pendingSleep = 0]
    ELSE [call EXCEPT !.pc = "rejected", !.attempt = @ + 1, !.pendingSleep = 0,
                      !.error = IF call.lastError # Null THEN call.lastError
                                ELSE [name |-> "Error"]]

\* the awaited response.json() settles
CallJson(call) ==
    [call EXCEPT !.pc = IF call.response.body = Unreadable THEN "unparsed" ELSE "parsed"]

\* the rejection of response.json()
SyntaxError == [name |-> "SyntaxError"]

---------------------------------------------------------------------------
(* The accessors.  accessor is the accessor invocation in progress with its locals,
   calls its fetchWithRetry calls in the order it started them.  An accessor
   continues in the task that settles the call or the body it awaits. *)

PlainPaginated == {"getCommitsPaginated", "getBranchesPaginated", "getPullRequestsPaginated"}
CountedPaginated == {"getWorkflowRunsPaginated", "searchCommits"}
ListAccessors == PlainPaginated \cup CountedPaginated
PaginatedAccessors == ListAccessors \cup {"searchPullRequests"}

\* the page and perPage arguments: the first pages, two of the default sizes
MaxPage == 2
Pages == 1..MaxPage
PerPages == {20, 30}

\* number of items a pull-request search returns at most
MaxItems == 2

\* the numbers of commits the commits endpoint returns
CommitCounts == {0, 2, DefaultLimit}

Commits(n) == [k \in 1..n |-> [sha |-> k]]

Items(n) == [k \in 1..n |-> [number |-> k]]

\* the request an accessor starts with
FirstUrl(name) ==
    CASE name = "getContributors" -> Url("contributors", 0)
      [] name = "getRecentCommitsWithFiles" -> Url("commits", 0)
      [] name = "searchPullRequests" -> Url("searchIssues", 0)
      [] OTHER -> Url("list", name)

\* error responses of any endpoint: not found, service unavailable
ErrorAnswers ==
    { RespBody(404, NoHeaders, <<>>, Unreadable),
      RespBody(503, NoHeaders, <<>>, Unreadable) }

\* the list body of a paginated endpoint, wrapped where the endpoint wraps it
ListBody(name) ==
    CASE name = "getWorkflowRunsPaginated" -> [workflow_runs |-> <<"d1">>, total_count |-> 7]
      [] name = "searchCommits" -> [items |-> <<"d1">>, total_count |-> 7]
      [] OTHER -> <<"d1">>

\* what the server may answer to a request
Answers(url) ==
    CASE url.kind = "contributors" ->
             { RespBody(202, Quota59, <<>>, Json([object |-> <<>>])),
               RespBody(202, NoHeaders, <<>>, Unreadable),
               RespBody(200, Quota59, <<>>, Json(<<"c1">>)),
               RespBody(200, NoHeaders, <<>>, Unreadable) } \cup ErrorAnswers
      [] url.kind = "commits" ->
             { RespBody(200, NoHeaders, <<>>, Json(Commits(n))) : n \in CommitCounts }
                 \cup { RespBody(200, NoHeaders, <<>>, Unreadable) } \cup ErrorAnswers
      [] url.kind = "files" ->
             { RespBody(200, NoHeaders, <<>>, Json([sha |-> url.id, files |-> <<url.id>>])),
               RespBody(200, NoHeaders, <<>>, Json([sha |-> url.id])),
               RespBody(200, NoHeaders, <<>>, Unreadable) } \cup ErrorAnswers
      [] url.kind = "searchIssues" ->
             { RespBody(200, NoHeaders, link, Json([items |-> Items(n), total_count |-> n + 7])) :
                   n \in 0..MaxItems, link \in {<<>>, LinkPart(<<"u", "2">>, RelNext)} }
                 \cup { RespBody(200, NoHeaders, <<>>, Unreadable) } \cup ErrorAnswers
      [] url.kind = "pull" ->
             { RespBody(200, NoHeaders, <<>>, Json([number |-> url.id])),
               RespBody(200, NoHeaders, <<>>, Unreadable) } \cup ErrorAnswers
      [] url.kind = "list" ->
             { RespBody(200, NoHeaders, link, Json(ListBody(url.id))) : link \in LinkHeaders }
                 \cup { RespBody(404, NoHeaders, <<>>, Unreadable) }

Settled(a, status, value) == [a EXCEPT !.status = status, !.value = value]

Unchanged(a, cs) == [acc |-> a, calls |-> cs]

\* the accessor awaits response.json() of call i
AwaitJson(a, cs, i) == [acc |-> a, calls |-> [cs EXCEPT ![i].pc = "json"]]

\* getContributors without the test for 202
getContributors_ParseAlways(a, cs) ==
    LET c == cs[1]
    IN  CASE c.pc = "resolved" -> AwaitJson(a, cs, 1)
          [] c.pc = "rejected" -> Unchanged(Settled(a, "rejected", c.error), cs)
          [] c.pc = "parsed" -> Unchanged(Settled(a, "resolved", c.response.body.json), cs)
          [] c.pc = "unparsed" -> Unchanged(Settled(a, "rejected", SyntaxError), cs)
          [] OTHER -> Unchanged(a, cs)

\* lines 363-375
getContributors(a, cs) ==
    LET c == cs[1]
    IN  CASE c.pc = "resolved" ->
                 IF c.response.status = 202
                 THEN Unchanged(Settled(a, "resolved", <<>>), cs)
                 ELSE AwaitJson(a, cs, 1)
          [] c.pc = "rejected" -> Unchanged(Settled(a, "rejected", c.error), cs)
          [] c.pc = "parsed" -> Unchanged(Settled(a, "resolved", c.response.body.json), cs)
          [] c.pc = "unparsed" -> Unchanged(Settled(a, "rejected", SyntaxError), cs)
          [] OTHER -> Unchanged(a, cs)

\* data.workflow_runs, data.items or data
DataOf(name, json) ==
    CASE name = "getWorkflowRunsPaginated" -> json.workflow_runs
      [] name = "searchCommits" -> json.items
      [] OTHER -> json

TotalCountOf(name, json) ==
    IF name \in CountedPaginated THEN json.total_count ELSE Null

\* the paginated list accessors: lines 236-258, 265-287, 296-319, 329-353, 411-444
\* (totalCount is also copied into the pagination object of the counted ones)
Paginated(a, cs) ==
    LET c == cs[1]
    IN  CASE c.pc = "resolved" -> AwaitJson(a, cs, 1)
          [] c.pc = "rejected" -> Unchanged(Settled(a, "rejected", c.error), cs)
          [] c.pc = "unparsed" -> Unchanged(Settled(a, "rejected", SyntaxError), cs)
          [] c.pc = "parsed" ->
                 LET links == parseLinkHeader(c.response.link)
                 IN  Unchanged(Settled([a EXCEPT !.links = links], "resolved",
                                   [data |-> DataOf(a.name, c.response.body.json),
                                    totalCount |-> TotalCountOf(a.name, c.response.body.json),
                                    pagination |-> Pagination(links, a.page, a.perPage)]),
                               cs)
          [] OTHER -> Unchanged(a, cs)

\* data.files || []
FilesOf(data) == IF "files" \in DOMAIN data THEN data.files ELSE <<>>

\* the loop of getRecentCommitsWithFiles reaches its next commit, or the return
NextCommit(a, cs) ==
    LET todo == Slice(a.commits, FileDetailCommits)
        k == Len(a.commitsWithFiles) + 1
    IN  IF k > Len(todo)
        THEN Unchanged(Settled(a, "resolved", a.commitsWithFiles), cs)
        ELSE [acc |-> a, calls |-> Append(cs, NewCall(Url("files", todo[k].sha)))]

Push(a, commit, files) ==
    [a EXCEPT !.commitsWithFiles = Append(@, [commit |-> commit, files |-> files])]

\* getRecentCommitsWithFiles without the try around getCommitFiles
getRecentCommitsWithFiles_Abort(a, cs, i) ==
    LET c == cs[i]
        commit == IF i > 1 THEN a.commits[i - 1] ELSE Null
    IN  IF i = 1
        THEN CASE c.pc = "resolved" -> AwaitJson(a, cs, 1)
               [] c.pc = "rejected" -> Unchanged(Settled(a, "rejected", c.error), cs)
               [] c.pc = "unparsed" -> Unchanged(Settled(a, "rejected", SyntaxError), cs)
               [] c.pc = "parsed" -> NextCommit([a EXCEPT !.commits = c.response.body.json], cs)
               [] OTHER -> Unchanged(a, cs)
        ELSE CASE c.pc = "resolved" -> AwaitJson(a, cs, i)
               [] c.pc = "rejected" -> Unchanged(Settled(a, "rejected", c.error), cs)
               [] c.pc = "unparsed" -> Unchanged(Settled(a, "rejected", SyntaxError), cs)
               [] c.pc = "parsed" ->
                      NextCommit(Push(a, commit, FilesOf(c.response.body.json)), cs)
               [] OTHER -> Unchanged(a, cs)

\* lines 392-408, with getCommits (229-234) as call 1 and getCommitFiles
\* (384-390) as the calls after it
getRecentCommitsWithFiles(a, cs, i) ==
    LET c == cs[i]
        commit == IF i > 1 THEN a.commits[i - 1] ELSE Null
    IN  IF i = 1
        THEN CASE c.pc = "resolved" -> AwaitJson(a, cs, 1)
               [] c.pc = "rejected" -> Unchanged(Settled(a, "rejected", c.error), cs)
               [] c.pc = "unparsed" -> Unchanged(Settled(a, "rejected", SyntaxError), cs)
               [] c.pc = "parsed" -> NextCommit([a EXCEPT !.commits = c.response.body.json], cs)
               [] OTHER -> Unchanged(a, cs)
        ELSE CASE c.pc = "resolved" -> AwaitJson(a, cs, i)
               [] c.pc \in {"rejected", "unparsed"} -> NextCommit(Push(a, commit, <<>>), cs)
               [] c.pc = "parsed" ->
                      NextCommit(Push(a, commit, FilesOf(c.response.body.json)), cs)
               [] OTHER -> Unchanged(a, cs)

\* the value of the promise of the follow-up call: the pull request, or null
\* after the catch of line 470
FollowUpValue(call) == IF call.pc = "parsed" THEN call.response.body.json ELSE Null

\* Promise.all over the follow-up promises, then the filter and the return
AllFollowUps(a, cs) ==
    LET slots == [k \in 1..(Len(cs) - 1) |-> cs[k + 1]]
    IN  IF \E k \in 1..Len(slots) : slots[k].pc = "unparsed"
        THEN Unchanged(Settled(a, "rejected", SyntaxError), cs)
        ELSE IF \A k \in 1..Len(slots) : slots[k].pc \in {"parsed", "rejected"}
        THEN Unchanged(Settled(a, "resolved",
                 [data |-> SelectSeq([k \in 1..Len(slots) |-> FollowUpValue(slots[k])],
                                     LAMBDA pr : pr # Null),
                  totalCount |-> a.data.total_count,
                  pagination |-> Pagination(a.links, a.page, a.perPage)]),
               cs)
        ELSE Unchanged(a, cs)

\* lines 447-488: call 1 is the search, the calls after it the follow-ups, all
\* started when the search body is parsed; a follow-up returns the promise of
\* prResponse.json() without awaiting it, so that its rejection is not caught
searchPullRequests(a, cs, i) ==
    LET c == cs[i]
    IN  IF i = 1
        THEN CASE c.pc = "resolved" -> AwaitJson(a, cs, 1)
               [] c.pc = "rejected" -> Unchanged(Settled(a, "rejected", c.error), cs)
               [] c.pc = "unparsed" -> Unchanged(Settled(a, "rejected", SyntaxError), cs)
               [] c.pc = "parsed" ->
                      LET data == c.response.body.json
                          a1 == [a EXCEPT !.data = data,
                                          !.links = parseLinkHeader(c.response.link)]
                      IN  AllFollowUps(a1,
                              cs \o [k \in 1..Len(data.items) |->
                                        NewCall(Url("pull", data.items[k].number))])
               [] OTHER -> Unchanged(a, cs)
        ELSE CASE c.pc = "resolved" -> AwaitJson(a, cs, i)
               [] OTHER -> AllFollowUps(a, cs)

\* the accessor continues after a step of its call i
Resume(a, cs, i) ==
    IF a.status # "running" THEN Unchanged(a, cs)
    ELSE CASE a.name = "getContributors" -> getContributors(a, cs)
           [] a.name = "getRecentCommitsWithFiles" -> getRecentCommitsWithFiles(a, cs, i)
           [] a.name = "searchPullRequests" -> searchPullRequests(a, cs, i)
           [] OTHER -> Paginated(a, cs)

\* an accessor is called: it runs up to its first await
Invoke(name, page, perPage) ==
    /\ accessor.status = "idle"
    /\ accessor' = [NoAccessor EXCEPT !.name = name, !.status = "running",
                                 !.page = page, !.perPage = perPage]
    /\ calls' = <<NewCall(FirstUrl(name))>>
    /\ UNCHANGED <<apiVars, now, callVars>>
    /\ UNCHANGED <<inputVars, dashVars, viewVars>>

\* a call that has settled and whose outcome the accessor has taken: its locals
\* are gone, the parsed body stays with the accessor
Retired(call) ==
    IF call.pc \in {"parsed", "unparsed", "rejected"}
    THEN [NewCall(call.url) EXCEPT
             !.auth = call.auth, !.pc = call.pc, !.fetches = 0,
             !.response = IF call.pc = "parsed" THEN call.response ELSE Null]
    ELSE call

\* call i of the accessor has become call, and the accessor continues
Task(i, call) ==
    LET r == Resume(accessor, [calls EXCEPT ![i] = call], i)
    IN  /\ accessor' = r.acc
        /\ calls' = [k \in DOMAIN r.calls |-> Retired(r.calls[k])]

AccFetchResponds(i, response) ==
    /\ i \in 1..Len(calls)
    /\ calls[i].pc = "fetching"
    /\ response \in Answers(calls[i].url)
    /\ LET u == updateRateLimitInfo(response, rateLimitInfo, rateLimitListeners)
       IN  /\ rateLimitInfo' = u.info
           /\ events' = u.events
    /\ Task(i, CallResponds(calls[i], response, now))
    /\ UNCHANGED <<token, rateLimitListeners, regCallback, listenerRegs, unsubCalls, now>>
    /\ UNCHANGED <<pc, authHeader, startToken, sentAuth, attempt, fetches, hist, waits,
                   pendingSleep, last, lastError, quotaResponse, result>>
    /\ UNCHANGED <<inputVars, dashVars, viewVars>>

AccBodyRead(i) ==
    /\ i \in 1..Len(calls)
    /\ calls[i].pc = "readingBody"
    /\ Task(i, CallBodyRead(calls[i]))
    /\ UNCHANGED <<apiVars, now, callVars>>
    /\ UNCHANGED <<inputVars, dashVars, viewVars>>

\* the sleep of call i is over.  The sleeps of calls in flight together may end
\* in any order, and the clock is left alone: no answer of Answers makes a call
\* read it (only the 403 branch does, PrimaryWait)
AccSleepDone(i) ==
    /\ i \in 1..Len(calls)
    /\ calls[i].pc = "sleeping"
    /\ Task(i, CallWakes(calls[i]))
    /\ UNCHANGED <<apiVars, now, callVars>>
    /\ UNCHANGED <<inputVars, dashVars, viewVars>>

AccJsonSettles(i) ==
    /\ i \in 1..Len(calls)
    /\ calls[i].pc = "json"
    /\ Task(i, CallJson(calls[i]))
    /\ UNCHANGED <<apiVars, now, callVars>>
    /\ UNCHANGED <<inputVars, dashVars, viewVars>>

NextAccessors ==
    \/ Invoke("getContributors", 0, 0)
    \/ Invoke("getRecentCommitsWithFiles", 0, 0)
    \/ \E name \in PaginatedAccessors, page \in Pages, perPage \in PerPages :
          Invoke(name, page, perPage)
    \/ \E i \in DOMAIN calls : \E response \in Answers(calls[i].url) :
          AccFetchResponds(i, response)
    \/ \E i \in DOMAIN calls : AccBodyRead(i)
    \/ \E i \in DOMAIN calls : AccSleepDone(i)
    \/ \E i \in DOMAIN calls : AccJsonSettles(i)

SpecAccessors == Init /\ [][NextAccessors]_vars

\* the answers to the requests of a composite accessor: the readable ones, with
\* at most MaxItems commits, and the server error
CompositeAnswers(url) ==
    { a \in Answers(url) :
         \/ a.status = 503
         \/ /\ a.body # Unreadable
            /\ url.kind = "commits" => Len(a.body.json) <= MaxItems }

\* the composite accessors, with setToken called at any moment
NextComposite ==
    \/ \E t \in Tokens : setToken(t)
    \/ Invoke("getRecentCommitsWithFiles", 0, 0)
    \/ \E page \in Pages, perPage \in PerPages : Invoke("searchPullRequests", page, perPage)
    \/ \E i \in DOMAIN calls : \E response \in CompositeAnswers(calls[i].url) :
          AccFetchResponds(i, response)
    \/ \E i \in DOMAIN calls : AccBodyRead(i)
    \/ \E i \in DOMAIN calls : AccSleepDone(i)
    \/ \E i \in DOMAIN calls : AccJsonSettles(i)

SpecComposite == Init /\ [][NextComposite]_vars

---------------------------------------------------------------------------
(* RepositoryInput: the field and its submit handler *)

\* RepositoryInput.tsx lines 30-35
handleInputChange(value) ==
    /\ repoInput' = value
    /\ isValid' = IF ~isValid /\ Truthy(Trim(value)) THEN TRUE ELSE isValid
    /\ parsed' = NotParsed
    /\ UNCHANGED <<apiVars, now, callVars, accVars, dashVars, viewVars>>

\* RepositoryInput.tsx lines 18-28; onRepositorySelect is handed parsed.owner
\* and parsed.repo
handleSubmit ==
    /\ parsed' = parseRepoInput(repoInput)
    /\ isValid' = (parsed' # Null)
    /\ UNCHANGED repoInput
    /\ UNCHANGED <<apiVars, now, callVars, accVars, dashVars, viewVars>>

NextInput ==
    \/ \E value \in RepoInputs : handleInputChange(value)
    \/ handleSubmit

SpecInput == Init /\ [][NextInput]_vars

---------------------------------------------------------------------------
(* The dashboard (App): loadRepositoryData and its seven loaders.  A loader
   awaits one accessor; how the accessor settles is an input here. *)

\* number of loadRepositoryData invocations, one after the other
MaxLoads == 2

\* a failed loader that empties what it displays
AfterLoader_ClearOnFailure(shown, l, outcome) ==
    [shown EXCEPT ![l] = IF outcome = "fulfilled" THEN "loaded" ELSE "empty"]

\* the try and catch of a loader: setCommits(commitsData), or console.error
AfterLoader(shown, l, outcome) ==
    IF outcome = "fulfilled" THEN [shown EXCEPT ![l] = "loaded"] ELSE shown

\* App.tsx lines 89-99 up to the await: every loader runs up to its own await
loadRepositoryData ==
    /\ loadPc = "idle"
    /\ loads < MaxLoads
    /\ loads' = loads + 1
    /\ loading' = [k \in DOMAIN loading |-> IF k \in Loaders THEN TRUE ELSE loading[k]]
    /\ loaders' = [l \in Loaders |-> "pending"]
    /\ displayedBefore' = displayed
    /\ loadPc' = "awaiting"
    /\ UNCHANGED <<displayed, lastRefresh>>
    /\ UNCHANGED <<apiVars, now, callVars, accVars, inputVars, viewVars>>

\* the accessor awaited by loader l settles: the rest of the loader, and the
\* rest of loadRepositoryData (lines 101-102) when l was the last one pending
LoaderSettles(l, outcome) ==
    /\ loadPc = "awaiting"
    /\ loaders[l] = "pending"
    /\ displayed' = AfterLoader(displayed, l, outcome)
    /\ loading' = [loading EXCEPT ![l] = FALSE]
    /\ loaders' = [loaders EXCEPT ![l] = outcome]
    /\ IF \A k \in Loaders \ {l} : loaders[k] # "pending"
       THEN /\ lastRefresh' = [date |-> loads]
            /\ loadPc' = "idle"
       ELSE UNCHANGED <<lastRefresh, loadPc>>
    /\ UNCHANGED <<loads, displayedBefore>>
    /\ UNCHANGED <<apiVars, now, callVars, accVars, inputVars, viewVars>>

NextDashboard ==
    \/ loadRepositoryData
    \/ \E l \in Loaders, outcome \in {"fulfilled", "rejected"} : LoaderSettles(l, outcome)

SpecDashboard == Init /\ [][NextDashboard]_vars

---------------------------------------------------------------------------
(* The display helpers: formatTimeAgo, getStatusColor, getStatusIcon.  A Date
   is held as whole seconds and the milliseconds within the second, so that
   ages of a month stay within the integers of the checker. *)

\* the Date whose getTime() is ms
DateOf(ms) == [s |-> ms \div 1000, ms |-> ms % 1000]

\* the Date that lies sec seconds and ms milliseconds before t
DateBefore(t, sec, ms) ==
    IF t.ms >= ms THEN [s |-> t.s - sec, ms |-> t.ms - ms]
    ELSE [s |-> t.s - sec - 1, ms |-> t.ms - ms + 1000]

\* Math.floor((t.getTime() - date.getTime()) / 1000)
DiffInSeconds(date, t) == (t.s - date.s) + (IF t.ms >= date.ms THEN 0 ELSE -1)

\* the decimal digits of a number that is not negative, as a template literal
\* writes it
RECURSIVE Decimal(_)
Decimal(n) ==
    IF n < 10 THEN <<Digits[n + 1]>> ELSE Decimal(n \div 10) \o <<Digits[(n % 10) + 1]>>

\* date.toLocaleDateString(): a text that depends on the date and the locale
LocaleDateString(date) == [localeDateOf |-> date]

\* the comparisons of formatTimeAgo with the thresholds included
TimeAgo_Inclusive(date, t) ==
    LET diffInSeconds == DiffInSeconds(date, t)
    IN  IF diffInSeconds <= 60 THEN [text |-> <<"just now">>]
        ELSE IF diffInSeconds <= 3600
        THEN [text |-> Decimal(diffInSeconds \div 60) \o <<"m ago">>]
        ELSE IF diffInSeconds <= 86400
        THEN [text |-> Decimal(diffInSeconds \div 3600) \o <<"h ago">>]
        ELSE IF diffInSeconds <= 2592000
        THEN [text |-> Decimal(diffInSeconds \div 86400) \o <<"d ago">>]
        ELSE LocaleDateString(date)

\* lines 501-512, for the Date of dateString and the Date of the clock
TimeAgo(date, t) ==
    LET diffInSeconds == DiffInSeconds(date, t)
    IN  IF diffInSeconds < 60 THEN [text |-> <<"just now">>]
        ELSE IF diffInSeconds < 3600
        THEN [text |-> Decimal(diffInSeconds \div 60) \o <<"m ago">>]
        ELSE IF diffInSeconds < 86400
        THEN [text |-> Decimal(diffInSeconds \div 3600) \o <<"h ago">>]
        ELSE IF diffInSeconds < 2592000
        THEN [text |-> Decimal(diffInSeconds \div 86400) \o <<"d ago">>]
        ELSE LocaleDateString(date)

\* ages in whole seconds: around every threshold and every first multiple, and
\* dates that lie ahead of the clock
AgeSeconds ==
    {-60, -1, 0, 1, 59, 60, 61, 119, 120, 121, 3540, 3599, 3600, 3601, 7199, 7200, 7201,
     82800, 86399, 86400, 86401, 172799, 172800, 172801, 2505600, 2591999, 2592000,
     2592001, 5184000, 31536000}

\* the milliseconds of an age beyond its whole seconds
AgeMillis == {0, 1, 500, 999}

\* formatTimeAgo is called with the timestamp of the date that lies sec s and
\* ms ms back
formatTimeAgo(sec, ms) ==
    LET date == DateBefore(DateOf(now), sec, ms)
    IN  /\ timeAgo' = [age |-> sec, date |-> date, result |-> TimeAgo(date, DateOf(now))]
        /\ UNCHANGED statusView
        /\ UNCHANGED <<apiVars, now, callVars, accVars, inputVars, dashVars>>

NextTimeAgo ==
    \E sec \in AgeSeconds, ms \in AgeMillis : formatTimeAgo(sec, ms)

SpecTimeAgo == Init /\ [][NextTimeAgo]_vars

\* a conclusion is a string, null, or undefined (the argument left out)
Str(text) == [string |-> text]
Undefined == [undefined |-> TRUE]

\* lines 514-527
getStatusColor(status, conclusion) ==
    IF status = "completed"
    THEN CASE conclusion = Str("success") -> "text-chart-success"
           [] conclusion = Str("failure") -> "text-chart-danger"
           [] conclusion = Str("cancelled") -> "text-chart-gray"
           [] conclusion = Str("skipped") -> "text-chart-gray"
           [] OTHER -> "text-chart-warning"
    ELSE IF status = "in_progress" THEN "text-chart-info"
    ELSE IF status = "queued" THEN "text-chart-warning"
    ELSE "text-chart-gray"

\* an icon chosen by the conclusion before the status is looked at
getStatusIcon_ConclusionFirst(status, conclusion) ==
    CASE conclusion = Str("success") -> "U+2713"
      [] conclusion = Str("failure") -> "U+2717"
      [] conclusion = Str("cancelled") -> "U+2298"
      [] conclusion = Str("skipped") -> "U+229D"
      [] OTHER -> IF status = "completed" THEN "?"
                  ELSE IF status = "in_progress" THEN "U+27F3"
                  ELSE IF status = "queued" THEN "U+22EF"
                  ELSE "U+00B7"

\* lines 529-542; an icon is named by its code point
getStatusIcon(status, conclusion) ==
    IF status = "completed"
    THEN CASE conclusion = Str("success") -> "U+2713"
           [] conclusion = Str("failure") -> "U+2717"
           [] conclusion = Str("cancelled") -> "U+2298"
           [] conclusion = Str("skipped") -> "U+229D"
           [] OTHER -> "?"
    ELSE IF status = "in_progress" THEN "U+27F3"
    ELSE IF status = "queued" THEN "U+22EF"
    ELSE "U+00B7"

\* the run states of the workflow runs API, an unknown one and the empty string
Statuses ==
    {"completed", "in_progress", "queued", "requested", "waiting", "pending", "unknown", "",
     "Completed", "success"}

Conclusions ==
    { Str(c) : c \in {"success", "failure", "cancelled", "skipped", "neutral", "timed_out",
                      "action_required", "stale", "other", "", "Success", "completed"} }
        \cup {Null, Undefined}

\* ActionStatus.tsx lines 52-59: the colour, the icon and the label of a run
getRunStatusBadge(status, conclusion) ==
    /\ statusView' =
          [status |-> status, conclusion |-> conclusion,
           color |-> getStatusColor(status, conclusion),
           icon |-> getStatusIcon(status, conclusion),
           label |-> IF status = "completed" /\ conclusion \notin {Null, Undefined, Str("")}
                     THEN conclusion.string ELSE status]
    /\ UNCHANGED timeAgo
    /\ UNCHANGED <<apiVars, now, callVars, accVars, inputVars, dashVars>>

NextStatus ==
    \E status \in Statuses, conclusion \in Conclusions : getRunStatusBadge(status, conclusion)

SpecStatus == Init /\ [][NextStatus]_vars

---------------------------------------------------------------------------
(* Vocabulary of the properties *)

Done == pc \in {"resolved", "rejected"}

Range(s) == {s[i] : i \in 1..Len(s)}

Count(s, x) == Cardinality({i \in 1..Len(s) : s[i] = x})

AllOf(h, kinds) == \A i \in 1..Len(h) : h[i] \in kinds

\* the call rejected with a GitHubAPIError of this status and flag
RejectedWithApiError(status, isRateLimited) ==
    /\ pc = "rejected"
    /\ result.kind = "rejected"
    /\ result.error.name = "GitHubAPIError"
    /\ result.error.status = status
    /\ result.error.isRateLimited = isRateLimited

\* the retry that follows the latest attempt: the call sleeps ms, or has slept
\* ms and issued the next fetch
RetryingAfter(ms) ==
    \/ pc = "sleeping" /\ pendingSleep = ms /\ fetches = Len(hist)
    \/ /\ pc = "fetching"
       /\ fetches = Len(hist) + 1
       /\ Len(waits) > 0
       /\ waits[Len(waits)] = ms

\* a step in which the call processes a response
ResponseStep == Len(hist') = Len(hist) + 1 /\ last'.kind = "response"

\* the snapshot that the rate-limit headers of the modelled responses denote
SnapshotOf(response) ==
    IF response.headers = Quota59
    THEN [limit |-> 60, remaining |-> 59, reset |-> 9000, used |-> 1]
    ELSE [limit |-> 60, remaining |-> 0, reset |-> 9000, used |-> 0]

CarriesRateLimitHeaders(response) ==
    /\ response.headers.limit # <<>>
    /\ response.headers.remaining # <<>>
    /\ response.headers.reset # <<>>

NotifiedCallbacks(evs) ==
    LET n == SelectSeq(evs, LAMBDA e : e.ev = "notify")
    IN  [i \in 1..Len(n) |-> n[i].cb]

---------------------------------------------------------------------------
(* C1: a 403 response with X-RateLimit-Remaining '0' ends the call: the call
   rejects with a rate-limited GitHubAPIError 403 and that attempt is the
   last fetch of the call (the only one when it is the first response). *)
C1_PrimaryLimitShortCircuit ==
    \A i \in 1..Len(hist) :
        hist[i] = "403-limit" =>
            /\ i = Len(hist)
            /\ fetches = i
            /\ RejectedWithApiError(403, TRUE)

(* C2: when every attempt returns 429 the call makes exactly MAX_RETRIES + 1
   = 4 attempts and then rejects with a rate-limited GitHubAPIError 429 whose
   retryAfter is the wait of the last attempt: Retry-After seconds * 1000, or
   1000 * 2^3 without the header. *)
C2_SecondaryLimitExhausted ==
    (Len(hist) > 0 /\ AllOf(hist, {"429"})) =>
        /\ fetches <= MAX_RETRIES + 1
        /\ Len(hist) <= MAX_RETRIES => ~Done
        /\ Len(hist) = MAX_RETRIES + 1 =>
              /\ fetches = 4
              /\ RejectedWithApiError(429, TRUE)
              /\ result.error.hasRetryAfter
              /\ result.error.retryAfter =
                    (IF last.response.headers.retryAfter = <<"3">> THEN 3000 ELSE 8000)

C2_Witness ==
    /\ hist = <<"429", "429", "429", "429">>
    /\ pc = "rejected"
    /\ result.error.retryAfter = 3000

(* C3: a 2xx response at attempt k, after attempts that were only 429
   responses, 5xx responses or fetch failures, resolves the call with that
   response after exactly k + 1 fetches; such transient failures before the
   last attempt never end the call. *)
C3_SuccessAfterTransient ==
    /\ (Len(hist) <= MAX_RETRIES /\ AllOf(hist, {"429", "5xx", "failure"})) =>
          /\ ~Done
          /\ fetches \in {Len(hist), Len(hist) + 1}
    /\ (/\ Len(hist) > 0
        /\ hist[Len(hist)] = "2xx"
        /\ AllOf(SubSeq(hist, 1, Len(hist) - 1), {"429", "5xx", "failure"})) =>
          /\ pc = "resolved"
          /\ result = [kind |-> "resolved", response |-> last.response]
          /\ fetches = Len(hist)

C3_Witness ==
    /\ Len(hist) = MAX_RETRIES + 1
    /\ Range(SubSeq(hist, 1, 3)) = {"429", "5xx", "failure"}
    /\ hist[4] = "2xx"
    /\ pc = "resolved"

(* C4: a 5xx response with attempts remaining is retried after a wait of
   INITIAL_RETRY_DELAY * 2^attempt; when all MAX_RETRIES + 1 attempts return
   5xx the call rejects with a GitHubAPIError that carries the status of the
   last response and is not rate-limited. *)
C4_ServerErrors ==
    /\ (Len(hist) > 0 /\ hist[Len(hist)] = "5xx" /\ Len(hist) <= MAX_RETRIES) =>
          RetryingAfter(1000 * Pow2(Len(hist) - 1))
    /\ (Len(hist) = MAX_RETRIES + 1 /\ AllOf(hist, {"5xx"})) =>
          /\ fetches = 4
          /\ pc \in {"readingBody", "rejected"}
          /\ pc = "rejected" =>
                /\ RejectedWithApiError(last.response.status, FALSE)
                /\ ~result.error.hasRetryAfter

C4_Witness ==
    /\ hist = <<"5xx", "5xx", "5xx", "5xx">>
    /\ waits = <<1000, 2000, 4000>>
    /\ RejectedWithApiError(503, FALSE)

(* C5: a non-2xx response that is not a 429, not a 5xx and not a 403 with
   X-RateLimit-Remaining '0' ends the call without a retry and without a
   wait: the call rejects with a GitHubAPIError of that status that is not
   rate-limited, and a first such response means exactly one fetch. *)
C5_ClientErrorNoRetry ==
    \A i \in 1..Len(hist) :
        hist[i] = "4xx" =>
            /\ i = Len(hist)
            /\ fetches = i
            /\ pendingSleep = 0
            /\ Len(waits) < i
            /\ pc \in {"readingBody", "rejected"}
            /\ pc = "rejected" =>
                  /\ RejectedWithApiError(last.response.status, FALSE)
                  /\ ~result.error.hasRetryAfter

C5_Witness ==
    /\ hist = <<"4xx">>
    /\ fetches = 1
    /\ last.response.headers.remaining = <<"5", "9">>
    /\ RejectedWithApiError(403, FALSE)

(* C6: a rejected fetch with attempts remaining is retried after a wait of
   INITIAL_RETRY_DELAY * 2^attempt, whatever the message of the failure; when
   all MAX_RETRIES + 1 fetches reject, the call rejects with a NetworkError
   whose originalError is the last failure. *)
C6_NetworkFailures ==
    /\ (Len(hist) > 0 /\ hist[Len(hist)] = "failure" /\ Len(hist) <= MAX_RETRIES) =>
          RetryingAfter(1000 * Pow2(Len(hist) - 1))
    /\ (Len(hist) = MAX_RETRIES + 1 /\ AllOf(hist, {"failure"})) =>
          /\ pc = "rejected"
          /\ result.error = [name |-> "NetworkError", originalError |-> last.error]

(* C7: every processed response that carries the X-RateLimit-Limit,
   -Remaining and -Reset headers, whatever its status and whether or not it
   is retried, overwrites the stored snapshot with its values and calls every
   registered listener exactly once with it, also when the snapshot is equal
   to the one stored before. *)
C7_RateLimitPublication ==
    [][(ResponseStep /\ CarriesRateLimitHeaders(last'.response)) =>
          /\ rateLimitInfo' = SnapshotOf(last'.response)
          /\ \A cb \in Range(rateLimitListeners) \cup Range(NotifiedCallbacks(events')) :
                Count(NotifiedCallbacks(events'), cb) = Count(rateLimitListeners, cb)
          /\ \A i \in 1..Len(events') :
                events'[i].ev = "notify" => events'[i].info = SnapshotOf(last'.response)]_vars

C7_Witness ==
    /\ hist = <<"429", "429">>
    /\ last.response.headers = Quota0
    /\ Len(rateLimitListeners) = 2
    /\ Len(NotifiedCallbacks(events)) = 2
    /\ pc = "sleeping"

(* C8: getRateLimitInfo() is null until a response carrying the rate-limit
   headers has been processed, afterwards it is the snapshot of the latest
   such response; a response without the headers leaves it unchanged and it
   never goes back to null. *)
C8_SnapshotLifecycle ==
    /\ [](getRateLimitInfo =
            (IF quotaResponse = Null THEN Null ELSE SnapshotOf(quotaResponse)))
    /\ [][/\ getRateLimitInfo # Null => getRateLimitInfo' # Null
          /\ (ResponseStep /\ ~CarriesRateLimitHeaders(last'.response)) =>
                getRateLimitInfo' = getRateLimitInfo]_vars

C8_Witness ==
    /\ Len(hist) = 3
    /\ last.kind = "response"
    /\ last.response = Resp(429, NoHeaders)
    /\ quotaResponse = Resp(500, Quota59)
    /\ getRateLimitInfo = [limit |-> 60, remaining |-> 59, reset |-> 9000, used |-> 1]

(* C9: the function returned by onRateLimitChange(listener) removes that
   listener from the subscriber list and keeps every other listener in its
   place; called again when the listener is no longer in the list, it leaves
   the list as it is. *)
C9_UnsubscribeIdempotent ==
    [][\A r \in 1..Len(regCallback) :
          unsubCalls'[r] = unsubCalls[r] + 1 =>
             /\ regCallback[r] \notin Range(rateLimitListeners')
             /\ rateLimitListeners' =
                   SelectSeq(rateLimitListeners, LAMBDA l : l # regCallback[r])
             /\ unsubCalls[r] >= 1 /\ regCallback[r] \notin Range(rateLimitListeners) =>
                   rateLimitListeners' = rateLimitListeners]_vars

C9_Witness ==
    /\ Len(regCallback) = 2
    /\ regCallback[1] # regCallback[2]
    /\ unsubCalls = <<2, 0>>
    /\ rateLimitListeners = <<regCallback[2]>>

(* C10: when a response with the rate-limit headers is processed, the
   listeners registered at that moment are called one after the other in the
   order of their registration, and all of them before the status of the
   response is examined. *)
C10_FanOutInRegistrationOrder ==
    [][(ResponseStep /\ CarriesRateLimitHeaders(last'.response)) =>
          LET n == Len(rateLimitListeners) IN
          /\ Len(listenerRegs) = n
          /\ \A i, j \in 1..n : i < j => listenerRegs[i] < listenerRegs[j]
          /\ Len(events') = n + 1
          /\ \A i \in 1..n :
                /\ events'[i].ev = "notify"
                /\ events'[i].cb = regCallback[listenerRegs[i]]
          /\ events'[n + 1].ev = "status"]_vars

C10_Witness ==
    /\ Len(rateLimitListeners) = 2
    /\ rateLimitListeners[1] # rateLimitListeners[2]
    /\ Len(events) = 3
    /\ events[1].cb = rateLimitListeners[1]
    /\ events[2].cb = rateLimitListeners[2]
    /\ events[3] = [ev |-> "status", do |-> "return"]
    /\ pc = "resolved"

---------------------------------------------------------------------------
(* C11: every fetch of a call, the retries after backoff waits included,
   carries the Authorization header derived from the credential stored when
   the call started: 'token <credential>' for a non-empty credential, no
   header otherwise, whatever setToken did while the call was in flight. *)
C11_CredentialBinding ==
    /\ Len(sentAuth) = fetches
    /\ \A i \in 1..Len(sentAuth) :
          sentAuth[i] = IF startToken # <<>> THEN <<"token">> \o startToken ELSE <<>>

\* all four fetches made, one after a wait, the credential replaced meanwhile
C11_Witness ==
    /\ Len(sentAuth) = MAX_RETRIES + 1
    /\ Len(waits) > 0
    /\ startToken # <<>>
    /\ token # startToken
    /\ Done

(* C12: a step that changes the stored credential leaves the last-observed
   snapshot and the listener list as they are and invokes no listener. *)
C12_SetTokenFrame ==
    [][token' # token =>
          /\ rateLimitInfo' = rateLimitInfo
          /\ rateLimitListeners' = rateLimitListeners
          /\ events' = events]_vars

\* a credential replaced while a snapshot is cached and a listener registered
C12_Witness ==
    /\ token # startToken
    /\ fetches > 0
    /\ rateLimitInfo # Null
    /\ Len(rateLimitListeners) > 0

\* a step in which the call raises a GitHubAPIError: on processing a response,
\* or after reading the body of an error response
RaisesApiError ==
    \/ pc = "readingBody" /\ pc' # "readingBody"
    \/ ResponseStep /\ events'[Len(events')] = [ev |-> "status", do |-> "throw"]

(* C18: every GitHubAPIError the client raises is rate-limited exactly when
   its response was a 429 or a 403 with X-RateLimit-Remaining '0', carries a
   retryAfter exactly when it is rate-limited, and for the 403 case that
   retryAfter is max(0, reset time - now), never negative. *)
C18_ErrorClassification ==
    [][RaisesApiError =>
          LET error == lastError'
              response == last'.response
              limited == \/ response.status = 429
                         \/ response.status = 403 /\ response.headers.remaining = <<"0">>
              reset == IF response.headers.reset # <<>>
                       THEN ParseInt(response.headers.reset) * 1000
                       ELSE now
          IN  /\ error.name = "GitHubAPIError"
              /\ error.status = response.status
              /\ error.isRateLimited <=> limited
              /\ error.hasRetryAfter <=> error.isRateLimited
              /\ error.hasRetryAfter => error.retryAfter >= 0
              /\ response.status = 403 /\ limited =>
                    error.retryAfter = (IF reset > now THEN reset - now ELSE 0)]_vars

\* a primary-limit error raised after the reset time has passed
C18_Witness ==
    /\ lastError # Null
    /\ lastError.name = "GitHubAPIError"
    /\ lastError.status = 403
    /\ lastError.isRateLimited
    /\ lastError.retryAfter = 0
    /\ last.kind = "response"
    /\ last.response.headers.reset # <<>>
    /\ ParseInt(last.response.headers.reset) * 1000 < now

---------------------------------------------------------------------------
(* Vocabulary of the accessor properties *)

\* a call whose outcome its accessor has taken
CallSettled(call) == call.pc \in {"parsed", "unparsed", "rejected"}

\* the call did not yield a parsed body
CallFailed(call) == call.pc \in {"unparsed", "rejected"}

\* sub occurs in s
Contains(s, sub) ==
    \E i \in 1..(Len(s) - Len(sub) + 1) : SubSeq(s, i, i + Len(sub) - 1) = sub

(* C13: when the contributors endpoint answers 202, getContributors resolves
   with the empty list; the 202 ends the call like any success (no fetch
   follows it, a single fetch when it is the first answer) and its rate-limit
   headers are published. *)
C13_ContributorsAccepted ==
    (/\ accessor.name = "getContributors"
     /\ calls[1].response # Null
     /\ calls[1].response.status = 202) =>
        /\ accessor.status = "resolved"
        /\ accessor.value = <<>>
        /\ calls[1].pc = "resolved"
        /\ calls[1].fetches = calls[1].attempt + 1
        /\ calls[1].attempt = 0 => calls[1].fetches = 1
        /\ CarriesRateLimitHeaders(calls[1].response) =>
              rateLimitInfo = SnapshotOf(calls[1].response)

\* a 202 with rate-limit headers as the first answer
C13_Witness ==
    /\ accessor.name = "getContributors"
    /\ accessor.status = "resolved"
    /\ accessor.value = <<>>
    /\ calls[1].response.status = 202
    /\ calls[1].fetches = 1
    /\ rateLimitInfo = [limit |-> 60, remaining |-> 59, reset |-> 9000, used |-> 1]

(* C14: getRecentCommitsWithFiles returns one {commit, files} entry for every
   commit of the commits fetch, in the same order, the commits after the first
   5 with an empty files list. *)
C14_OneEntryPerCommit ==
    (accessor.name = "getRecentCommitsWithFiles" /\ accessor.status = "resolved") =>
        /\ Len(accessor.value) = Len(accessor.commits)
        /\ \A k \in 1..Len(accessor.value) :
              /\ accessor.value[k].commit = accessor.commits[k]
              /\ k > FileDetailCommits => accessor.value[k].files = <<>>

(* C15: getRecentCommitsWithFiles requests file detail for at most the first
   5 commits, one at a time in commit order; a commit whose file-detail call
   fails gets files = [] and the loop goes on to the next commit; the
   operation resolves once the last of these commits is done, and it rejects
   only when the commits fetch itself fails. *)
C15_PerCommitDegradation ==
    accessor.name = "getRecentCommitsWithFiles" =>
        LET todo == Min(FileDetailCommits, Len(accessor.commits))
            entries == accessor.commitsWithFiles
        IN  /\ Len(calls) <= 1 + todo
            /\ \A i \in 2..Len(calls) :
                  /\ calls[i].url = Url("files", accessor.commits[i - 1].sha)
                  /\ CallSettled(calls[i - 1])
                  /\ CallSettled(calls[i]) => Len(entries) >= i - 1
                  /\ CallSettled(calls[i]) /\ i - 1 < todo => Len(calls) > i
            /\ \A k \in 1..Len(entries) :
                  /\ entries[k].commit = accessor.commits[k]
                  /\ CallFailed(calls[k + 1]) => entries[k].files = <<>>
                  /\ ~CallFailed(calls[k + 1]) =>
                        entries[k].files = FilesOf(calls[k + 1].response.body.json)
            /\ accessor.status = "rejected" => Len(calls) = 1 /\ CallFailed(calls[1])
            /\ (calls[1].pc = "parsed" /\ Len(entries) = todo) =>
                  accessor.status = "resolved" /\ accessor.value = entries

\* the file detail of the second commit failed, that of the fifth did not
C15_Witness ==
    /\ accessor.name = "getRecentCommitsWithFiles"
    /\ accessor.status = "resolved"
    /\ Len(accessor.value) = FileDetailCommits
    /\ calls[3].pc = "rejected"
    /\ accessor.value[2].files = <<>>
    /\ accessor.value[FileDetailCommits].files # <<>>

(* C16: searchPullRequests makes one follow-up call per item of the search
   result; it resolves once every follow-up has settled, with the pull
   requests of the follow-ups that succeeded, in search-result order, and
   with the search's total_count; only a failure of the search request
   itself rejects it. *)
C16_FollowUpsDiscarded ==
    accessor.name = "searchPullRequests" =>
        LET followUps == [k \in 1..(Len(calls) - 1) |-> calls[k + 1]]
            succeeded == SelectSeq(followUps, LAMBDA c : c.pc = "parsed")
        IN  /\ accessor.data # Null =>
                  /\ Len(followUps) = Len(accessor.data.items)
                  /\ \A k \in 1..Len(followUps) :
                        followUps[k].url = Url("pull", accessor.data.items[k].number)
            /\ accessor.status = "rejected" => CallFailed(calls[1])
            /\ (accessor.data # Null /\ \A k \in 1..Len(followUps) : CallSettled(followUps[k]))
                  => accessor.status = "resolved"
            /\ accessor.status = "resolved" =>
                  /\ accessor.value.data =
                        [k \in 1..Len(succeeded) |-> succeeded[k].response.body.json]
                  /\ accessor.value.totalCount = accessor.data.total_count

(* C17: in every paginated accessor hasNextPage is true exactly when the Link
   header of the response contains a rel="next" relation (false when the
   header is absent), hasPrevPage exactly when the requested page is > 1,
   whatever the header says about rel="prev"; page and perPage are the
   arguments. *)
C17_PaginationDerivation ==
    (accessor.name \in PaginatedAccessors /\ accessor.status = "resolved") =>
        LET link == calls[1].response.link
            pagination == accessor.value.pagination
        IN  /\ pagination.hasNextPage <=> Contains(link, RelPrefix \o RelNext \o <<"\"">>)
            /\ pagination.hasPrevPage <=> accessor.page > 1
            /\ pagination.page = accessor.page
            /\ pagination.perPage = accessor.perPage

\* page 2 of a list whose Link header has a next but no prev relation
C17_Witness ==
    /\ accessor.name \in ListAccessors
    /\ accessor.status = "resolved"
    /\ accessor.page = 2
    /\ calls[1].response.link # <<>>
    /\ ~Contains(calls[1].response.link, RelPrev)
    /\ accessor.value.pagination.hasPrevPage
    /\ accessor.value.pagination.hasNextPage

---------------------------------------------------------------------------
\* the latest loadRepositoryData has resolved
LoadResolved == loads > 0 /\ loadPc = "idle"

(* C19: loadRepositoryData starts all seven loaders together, resolves only
   when every one of them has settled, and does resolve, setting lastRefresh,
   whichever of them fail; when it has resolved every loading flag of a loader
   is false again and a loader that failed has left what it displays as it
   was before. *)
C19_DashboardLoad ==
    /\ loads > 0 => \A l \in Loaders : loaders[l] \in {"pending", "fulfilled", "rejected"}
    /\ loadPc = "awaiting" =>
          /\ \E l \in Loaders : loaders[l] = "pending"
          /\ lastRefresh # [date |-> loads]
          /\ \A l \in Loaders : loaders[l] = "pending" => loading[l]
    /\ (loads > 0 /\ \A l \in Loaders : loaders[l] # "pending") => LoadResolved
    /\ LoadResolved =>
          /\ \A l \in Loaders : loaders[l] \in {"fulfilled", "rejected"}
          /\ lastRefresh = [date |-> loads]
          /\ \A l \in Loaders : ~loading[l]
          /\ \A l \in Loaders : loaders[l] = "rejected" => displayed[l] = displayedBefore[l]
          /\ \A l \in Loaders : loaders[l] = "fulfilled" => displayed[l] = "loaded"

\* a second load in which the commits loader failed over loaded data and the
\* branches loader succeeded
C19_Witness ==
    /\ LoadResolved
    /\ loads = 2
    /\ loaders["commits"] = "rejected"
    /\ displayedBefore["commits"] = "loaded"
    /\ displayed["commits"] = "loaded"
    /\ loaders["branches"] = "fulfilled"

\* the input, trimmed and without the prefix, has an owner and a repo segment
HasOwnerAndRepo(input) ==
    LET s == SelectSeq(input, LAMBDA c : c # " ")
        path == IF StartsWith(s, HttpsPrefix) THEN SubSeq(s, Len(HttpsPrefix) + 1, Len(s))
                ELSE IF StartsWith(s, HttpPrefix) THEN SubSeq(s, Len(HttpPrefix) + 1, Len(s))
                ELSE s
        segments == Split(path, "/")
    IN  Len(segments) >= 2 /\ segments[1] # <<>> /\ segments[2] # <<>>

(* C20: parseRepoInput yields the same {owner, repo} for owner/repo, for the
   https and http URLs, with a trailing .git, with further path segments, and
   with white space around any of these; it yields null for the empty string
   and for every input that has not both an owner and a repo segment. *)
C20_RepoInputForms ==
    parsed # NotParsed =>
        /\ \A f \in RepoForms :
              repoInput = Render(f) => parsed = [owner |-> f.owner, repo |-> f.repo]
        /\ ~HasOwnerAndRepo(repoInput) => parsed = Null
        /\ repoInput \in InvalidInputs => parsed = Null

\* an https URL with .git and white space around it has been parsed
C20_Witness ==
    /\ repoInput = <<" ">> \o HttpsPrefix \o <<"f", "b", "/", "r", "e", ".", "j", "s">>
                       \o DotGit \o <<" ", " ">>
    /\ parsed = [owner |-> <<"f", "b">>, repo |-> <<"r", "e", ".", "j", "s">>]
    /\ isValid

---------------------------------------------------------------------------
\* the number m with m * unit <= d < (m + 1) * unit
WholeUnits(d, unit) == CHOOSE m \in 0..(d + 1) : m * unit <= d /\ d < (m + 1) * unit

(* C21: formatTimeAgo, for a timestamp whose age is d whole seconds, returns
   'just now' for d < 60, the whole minutes and 'm ago' for 60 <= d < 3600,
   the whole hours and 'h ago' for 3600 <= d < 86400, the whole days and
   'd ago' for 86400 <= d < 2592000, and the locale date of the timestamp
   otherwise; exactly 60 s is '1m ago', exactly 3600 s '1h ago', exactly
   86400 s '1d ago'. *)
C21_TimeAgoThresholds ==
    timeAgo # Null =>
        LET d == timeAgo.age
            out == timeAgo.result
        IN  /\ d < 60 => out = [text |-> <<"just now">>]
            /\ (60 <= d /\ d < 3600) =>
                  out = [text |-> Decimal(WholeUnits(d, 60)) \o <<"m ago">>]
            /\ (3600 <= d /\ d < 86400) =>
                  out = [text |-> Decimal(WholeUnits(d, 3600)) \o <<"h ago">>]
            /\ (86400 <= d /\ d < 2592000) =>
                  out = [text |-> Decimal(WholeUnits(d, 86400)) \o <<"d ago">>]
            /\ d >= 2592000 => out = [localeDateOf |-> timeAgo.date]
            /\ d = 60 => out = [text |-> <<"1", "m ago">>]
            /\ d = 3600 => out = [text |-> <<"1", "h ago">>]
            /\ d = 86400 => out = [text |-> <<"1", "d ago">>]
            /\ d = 2591999 => out = [text |-> <<"2", "9", "d ago">>]

\* a timestamp 3600 s and 999 ms old is shown as one hour old
C21_Witness ==
    /\ timeAgo # Null
    /\ timeAgo.age = 3600
    /\ timeAgo.date.ms # DateOf(now).ms
    /\ timeAgo.result = [text |-> <<"1", "h ago">>]

(* C22: getStatusColor and getStatusIcon are total lookups: completed with
   success, failure, cancelled, skipped gives success and U+2713, danger and
   U+2717, gray and U+2298, gray and U+229D; completed with any other
   conclusion or none gives warning and '?'; in_progress gives info and
   U+27F3, queued warning and U+22EF, any other status gray and U+00B7,
   whatever the conclusion. *)
C22_StatusLookups ==
    statusView # Null =>
        LET v == <<statusView.color, statusView.icon>>
            st == statusView.status
            co == statusView.conclusion
        IN  /\ st = "completed" =>
                  /\ co = Str("success") => v = <<"text-chart-success", "U+2713">>
                  /\ co = Str("failure") => v = <<"text-chart-danger", "U+2717">>
                  /\ co = Str("cancelled") => v = <<"text-chart-gray", "U+2298">>
                  /\ co = Str("skipped") => v = <<"text-chart-gray", "U+229D">>
                  /\ co \notin {Str("success"), Str("failure"), Str("cancelled"), Str("skipped")}
                        => v = <<"text-chart-warning", "?">>
            /\ st = "in_progress" => v = <<"text-chart-info", "U+27F3">>
            /\ st = "queued" => v = <<"text-chart-warning", "U+22EF">>
            /\ st \notin {"completed", "in_progress", "queued"} =>
                  v = <<"text-chart-gray", "U+00B7">>

\* a queued run that carries the conclusion success
C22_Witness ==
    /\ statusView # Null
    /\ statusView.status = "queued"
    /\ statusView.conclusion = Str("success")
    /\ statusView.icon = "U+22EF"
    /\ statusView.color = "text-chart-warning"
---------------------------------------------------------------------------
\* a step in which the call issues a fetch after a failed attempt
RetryStep == fetches >= 1 /\ fetches' = fetches + 1

\* outcomes that are retried after a backoff wait: a 5xx response, a 429
\* response without Retry-After, a rejected fetch
BacksOff(outcome) ==
    \/ outcome.kind = "failure"
    \/ /\ outcome.kind = "response"
       /\ \/ outcome.response.status >= 500
          \/ outcome.response.status = 429 /\ outcome.response.headers.retryAfter = <<>>

RECURSIVE Sum(_)
Sum(s) == IF s = <<>> THEN 0 ELSE Head(s) + Sum(Tail(s))

(* C23: the retry that follows failed attempt k (k = 0, 1, 2) is issued after
   a wait of 1000, 2000, 4000 ms when the attempt was a 5xx response, a
   rejected fetch or a 429 response without Retry-After; the waits are on the
   calling path: the call has not settled while a wait is pending, and the
   clock has advanced by all its waits when it settles. *)
C23_BackoffSchedule ==
    /\ [][(RetryStep /\ BacksOff(last')) =>
             /\ pc = "sleeping"
             /\ last' = last
             /\ pendingSleep = <<1000, 2000, 4000>>[fetches]
             /\ now' = now + pendingSleep]_vars
    /\ [](pendingSleep > 0 => ~Done)
    /\ [](now = StartTime + Sum(waits))
(* C24: on a 429 response the wait before the next attempt is Retry-After
   seconds * 1000 ms when the header is present, whatever the attempt number,
   and 1000 * 2^attempt ms otherwise; when the 429 is the last attempt, the
   error raised carries that same value as retryAfter. *)
C24_SecondaryWaitSelection ==
    [][(ResponseStep /\ last'.response.status = 429) =>
          LET retryAfter == last'.response.headers.retryAfter
              wait == IF retryAfter = <<"3">> THEN 3000
                      ELSE <<1000, 2000, 4000, 8000>>[fetches]
          IN  /\ retryAfter \in {<<>>, <<"3">>}
              /\ fetches <= MAX_RETRIES =>
                    /\ pc' = "sleeping"
                    /\ pendingSleep' = wait
              /\ fetches = MAX_RETRIES + 1 =>
                    /\ pc' = "rejected"
                    /\ result'.error.name = "GitHubAPIError"
                    /\ result'.error.status = 429
                    /\ result'.error.hasRetryAfter
                    /\ result'.error.retryAfter = wait]_vars

\* 429 responses with and without Retry-After in one call, the last one without
C24_Witness ==
    /\ hist = <<"429", "429", "429", "429">>
    /\ waits = <<1000, 3000, 4000>>
    /\ pc = "rejected"
    /\ result.error.retryAfter = 8000
(* C25: whatever the outcomes of its attempts, a call issues at most
   MAX_RETRIES + 1 = 4 fetches and, every fetch settling, it resolves or
   rejects in the end; it never ends at the throw after the loop, and so
   never with the error 'Unknown error occurred'. *)
C25_BoundedTermination ==
    /\ [](fetches <= MAX_RETRIES + 1)
    /\ [](Len(hist) <= fetches /\ attempt <= MAX_RETRIES)
    /\ [][~(pc = "sleeping" /\ pc' = "rejected")]_vars
    /\ [](result.kind = "rejected" => result.error # [name |-> "Error"])
    /\ (pc # "idle" ~> Done)

\* four attempts of four kinds, the last rejecting the call
C25_Witness ==
    /\ hist = <<"5xx", "failure", "429", "403-limit">>
    /\ fetches = MAX_RETRIES + 1
    /\ pc = "rejected"
(* C26: 429 responses, 5xx responses and rejected fetches use up one attempt
   counter; when a mixed sequence of them exhausts it, the error raised is
   that of the final attempt: a rate-limited GitHubAPIError 429 after a 429,
   a GitHubAPIError with the 5xx status that is not rate-limited after a 5xx,
   a NetworkError after a rejected fetch. *)
C26_LastAttemptDecides ==
    AllOf(hist, {"429", "5xx", "failure"}) =>
        /\ Len(hist) <= MAX_RETRIES => ~Done /\ attempt \in {Len(hist) - 1, Len(hist)}
        /\ Len(hist) = MAX_RETRIES + 1 =>
              /\ fetches = MAX_RETRIES + 1
              /\ hist[Len(hist)] = "429" => RejectedWithApiError(429, TRUE)
              /\ hist[Len(hist)] = "5xx" =>
                    /\ pc \in {"readingBody", "rejected"}
                    /\ pc = "rejected" => RejectedWithApiError(last.response.status, FALSE)
              /\ hist[Len(hist)] = "failure" =>
                    /\ pc = "rejected"
                    /\ result.error = [name |-> "NetworkError", originalError |-> last.error]
---------------------------------------------------------------------------
\* the registrations of callback cb whose unsubscribe function was never called
LiveRegistrations(cb) ==
    {r \in 1..Len(regCallback) : regCallback[r] = cb /\ unsubCalls[r] = 0}

(* C28: registrations are independent: a published response invokes a
   callback once for each of its registrations that has not been
   unsubscribed, and the first call of a registration's unsubscribe function
   removes that one entry from the list. *)
C28_IndependentRegistrations ==
    /\ [][(ResponseStep /\ CarriesRateLimitHeaders(last'.response)) =>
             \A cb \in Range(regCallback) :
                Count(NotifiedCallbacks(events'), cb) = Cardinality(LiveRegistrations(cb))]_vars
    /\ [][\A r \in 1..Len(regCallback) :
             (unsubCalls[r] = 0 /\ unsubCalls'[r] = 1) =>
                Len(rateLimitListeners') = Len(rateLimitListeners) - 1]_vars
---------------------------------------------------------------------------
\* the calls of unsubscribe functions among the first n events of a fan-out
UnsubscribedBy(evs, n) == {evs[i].r : i \in {j \in 1..n : evs[j].ev = "unsubscribe"}}

(* C27: a listener is invoked only while it has a registration whose
   unsubscribe function has not been called: neither before the response is
   processed, nor by a listener called earlier in the same fan-out. *)
C27_NoCallAfterUnsubscribe ==
    [][ResponseStep =>
          \A j \in 1..Len(events') :
             events'[j].ev = "notify" =>
                \E r \in 1..Len(regCallback) :
                   /\ regCallback[r] = events'[j].cb
                   /\ unsubCalls[r] = 0
                   /\ r \notin UnsubscribedBy(events', j - 1)]_vars

(* C29: a listener that throws leaves the request as it would have been: a
   2xx response resolves the call with that response, the step issues no
   further fetch, and every listener of the list is notified. *)
C29_ThrowingListenerIsolated ==
    [][(ResponseStep /\ Throws \in Range(rateLimitListeners)
                     /\ CarriesRateLimitHeaders(last'.response)) =>
          /\ Ok(last'.response) =>
                /\ pc' = "resolved"
                /\ result' = [kind |-> "resolved", response |-> last'.response]
          /\ fetches' = fetches
          /\ Len(NotifiedCallbacks(events')) = Len(rateLimitListeners)]_vars
(* C30: all the requests made for one getRecentCommitsWithFiles or
   searchPullRequests call carry the same credential, also when setToken is
   called while the composite call is in progress. *)
C30_CompositeCredential ==
    accessor.name \in {"getRecentCommitsWithFiles", "searchPullRequests"} =>
        \A i, j \in DOMAIN calls : calls[i].auth = calls[j].auth
====
